---- MODULE Spec2Model ----
(***************************************************************************)
(* A model of js-loader-transpiler: the Condition evaluator, the Handler   *)
(* tree with its forks and memoized transformation chain                   *)
(* (src/services/configuration-service.js) and the run driver of           *)
(* src/main.js.                                                            *)
(***************************************************************************)
EXTENDS Integers, Sequences, FiniteSets, TLC

VARIABLES
    cSpec,      \* the condition specification handed to Condition.cast
    cArgs,      \* the arguments satisfiedBy is called with: <<path, context>>
    cResult,    \* the outcome of satisfiedBy, "pending" before the call
    handlers,   \* the Handler tree: handlers[1] is the top-level Handler
    match,      \* per Handler, how far _getOutputGeneratorsForSource has come
    matchError, \* per Handler, what its promise of generators rejected with
    condEvaluated,  \* the Handlers whose Condition has been evaluated
    destEvaluated,  \* the Handlers whose destination function has been called
    genDest,    \* per Handler, the destination of its OutputGenerator
    read,       \* the promise of source.getContentString()
    trans,      \* per Handler, the memoized promise of getTransformation
    stepLog,    \* per Handler, the loader invocations, in order
    waiting,    \* per Handler, generateOutput calls awaiting the output
    written,    \* per Handler, the writes of its destination file
    failed,     \* per Handler, the generateOutput calls that rejected
    calls,      \* the number of generateOutput calls made
    mHandlers,  \* main: the handlers of the configuration
    remaining,  \* main: the files the walker has not reported yet
    walkErrors, \* main: the number of 'errors' events of the walker
    ended,      \* main: the walker has emitted 'end'
    fileState,  \* main: per file, the promise pushed to processing
    tasks,      \* main: per file and selected handler, transpile then write
    mWrites,    \* main: the files written: destination, source, handler
    errors,     \* main: the entries of the errors array
    mResult,    \* main: the promise main returns
    uncaught,   \* main: an exception escaped an event handler
    cfgDef,     \* Configuration: output.handlers, the handler definitions
    cfgFiles,   \* Configuration: the files of the source directories
    cfgState,   \* Configuration: "new", then "constructed" or "threw"
    loaders,    \* per UseEntry, its Loader: _promiseForLoader and the imports
    visited,    \* the files the walker has reported to visitSourcesInDir
    chain,      \* per file and handler, the promise of Handler.transform
    invoked,    \* the loader invocations: file, handler, step, callable
    ldr,        \* transpile: what the loader of the step does when called
    lPhase,     \* transpile: "ready" before the loader is called, then "called"
    lPromise,   \* transpile: the promise that callback fulfils or rejects
    lResult,    \* transpile: the promise of the step in the chain
    lSignals,   \* transpile: the signals of the loader so far, in order
    lPost,      \* transpile: the callback calls the loader has yet to make
    sfPromise,  \* SourceFile: _promiseForContent, ...ContentString, ...Hash, ...Size
    sfReads,    \* SourceFile: the number of readFile calls
    sfStats,    \* SourceFile: the number of stat calls
    sfMade,     \* SourceFile: the promises created, in order of creation
    sfReturned, \* SourceFile: per accessor, the promises its calls returned
    sfCalls,    \* SourceFile: the number of accessor calls
    fanCfg,     \* fan-out: the files of each source directory and the handlers
    fanWalk,    \* fan-out: per source directory, the walk and its results array
    fanEvals,   \* fan-out: per directory, file and handler, the evaluations made
    fanOut,     \* fan-out: the promise of getOutputGeneratorsForConfig
    wOrigin,    \* wrapError: the error first thrown, and where
    wPath,      \* wrapError: the boundaries the error has yet to cross
    wErr,       \* wrapError: the error as it is now
    exitCode,   \* cli: the exit code of the process, once it has ended
    ctxHeap,    \* context: the data objects, each with the marks written into it
    ctxOf,      \* context: per source file, the handler context of its call
    ctxSeen,    \* context: per source file, the marks its functions found in data
    vWalk,      \* visitSourcesInDir: the walk: files not yet reported, failed, the events so far
    vResults,   \* visitSourcesInDir: the results array, a promise per dispatched file
    vPromise,   \* visitSourcesInDir: the promise it returns
    vSettled,   \* visitSourcesInDir: the settlements of that promise, in order
    rqRequest,  \* resolveRequestAsync: the request string
    rqTranspile,\* resolveRequestAsync: the promise of resolveRequest, and how far transpile is
    rqCatch,    \* resolveRequestAsync: the promise .catch returns
    rqThen,     \* resolveRequestAsync: the promise .then returns
    rqCalls     \* resolveRequestAsync: the calls of callback, in order

condVars == <<cSpec, cArgs, cResult>>

treeVars == <<handlers, match, matchError, condEvaluated, destEvaluated, genDest, read,
              trans, stepLog, waiting, written, failed, calls>>

mainVars == <<mHandlers, remaining, walkErrors, ended, fileState, tasks,
              mWrites, errors, mResult, uncaught>>

cfgVars == <<cfgDef, cfgFiles, cfgState, loaders, visited, chain, invoked>>

stepVars == <<ldr, lPhase, lPromise, lResult, lSignals, lPost>>

srcVars == <<sfPromise, sfReads, sfStats, sfMade, sfReturned, sfCalls>>

fanVars == <<fanCfg, fanWalk, fanEvals, fanOut>>

wrapVars == <<wOrigin, wPath, wErr>>

cliVars == <<exitCode>>

ctxVars == <<ctxHeap, ctxOf, ctxSeen>>

visitVars == <<vWalk, vResults, vPromise, vSettled>>

resolveVars == <<rqRequest, rqTranspile, rqCatch, rqThen, rqCalls>>

extVars == <<fanVars, wrapVars, cliVars, ctxVars, visitVars, resolveVars>>

vars == <<cSpec, cArgs, cResult, handlers, match, matchError, condEvaluated,
          destEvaluated, genDest, read, trans, stepLog, waiting, written, failed, calls,
          mHandlers, remaining, walkErrors, ended, fileState, tasks,
          mWrites, errors, mResult, uncaught,
          cfgDef, cfgFiles, cfgState, loaders, visited, chain, invoked,
          ldr, lPhase, lPromise, lResult, lSignals, lPost,
          sfPromise, sfReads, sfStats, sfMade, sfReturned, sfCalls,
          fanCfg, fanWalk, fanEvals, fanOut,
          wOrigin, wPath, wErr,
          exitCode,
          ctxHeap, ctxOf, ctxSeen,
          vWalk, vResults, vPromise, vSettled,
          rqRequest, rqTranspile, rqCatch, rqThen, rqCalls>>

(***************************************************************************)
(* JavaScript values: strings are sequences of characters.                 *)
(***************************************************************************)
Undefined == [t |-> "undefined"]
Str(s) == [t |-> "str", s |-> s]
Num(n) == [t |-> "num", n |-> n]
Bool(b) == [t |-> "bool", b |-> b]

\* the truthiness an if statement sees
Truthy(v) ==
    CASE v.t = "bool" -> v.b
      [] v.t = "num" -> v.n # 0
      [] v.t = "str" -> v.s # <<>>
      [] OTHER -> FALSE

DigitChar(d) ==
    CASE d = 0 -> "0" [] d = 1 -> "1" [] d = 2 -> "2" [] d = 3 -> "3"
      [] d = 4 -> "4" [] d = 5 -> "5" [] d = 6 -> "6" [] d = 7 -> "7"
      [] d = 8 -> "8" [] d = 9 -> "9"

RECURSIVE Decimal(_)
Decimal(n) == IF n < 10 THEN <<DigitChar(n)>>
              ELSE Append(Decimal(n \div 10), DigitChar(n % 10))

\* String(v): the text of a value
String(v) ==
    CASE v.t = "str" -> v.s
      [] v.t = "num" -> Decimal(v.n)
      [] v.t = "undefined" -> <<"u", "n", "d", "e", "f", "i", "n", "e", "d">>

startsWith(s, prefix) ==
    /\ Len(prefix) <= Len(s)
    /\ SubSeq(s, 1, Len(prefix)) = prefix

endsWith(s, suffix) ==
    /\ Len(suffix) <= Len(s)
    /\ SubSeq(s, Len(s) - Len(suffix) + 1, Len(s)) = suffix

(***************************************************************************)
(* Condition specifications.  A regular expression is the pattern          *)
(* /suffix$/; a predicate function is given by what it does when called.   *)
(***************************************************************************)
NoKey == [kind |-> "none"]
BooleanSpec(b) == [kind |-> "boolean", b |-> b]
StringSpec(s) == [kind |-> "string", s |-> s]
RegExpSpec(suffix) == [kind |-> "regexp", suffix |-> suffix]
FunctionSpec(ret) == [kind |-> "function", ret |-> ret]
ArraySpec(items) == [kind |-> "array", items |-> items]
ObjectSpec(test, include, exclude) ==
    [kind |-> "object", test |-> test, include |-> include, exclude |-> exclude]

\* what a predicate function may do: return a value, return a promise, throw
FunctionReturns == {"truthy", "falsy", "promiseTruthy", "promiseFalsy",
                    "promiseReject", "throw"}

\* outcomes of an evaluation: a boolean, or the error it fails with
BoolRes(b) == IF b THEN "true" ELSE "false"
IsError(r) == r \notin {"true", "false"}

\* RegExp.prototype.test converts its argument to a string
RegExp_test(c, v) == endsWith(String(v), c.suffix)

AbsPath(args) == IF Len(args) >= 1 THEN args[1] ELSE Undefined

\* the first error of a list of outcomes, "" when there is none
RECURSIVE FirstError(_)
FirstError(rs) ==
    IF rs = <<>> THEN ""
    ELSE IF IsError(Head(rs)) THEN Head(rs)
    ELSE FirstError(Tail(rs))

\* array.map(Condition.cast) of a spec used as an include or exclude value
SubConditions(v) ==
    IF v.kind = "none" THEN <<>>
    ELSE IF v.kind = "array" THEN v.items
    ELSE <<v>>

Condition_include(c) ==
    CASE c.kind = "array" -> c.items
      [] c.kind = "object" -> SubConditions(c.include)
      [] OTHER -> <<>>

Condition_exclude(c) ==
    CASE c.kind = "object" -> SubConditions(c.exclude)
      [] OTHER -> <<>>

\* the arguments satisfiedBy hands to its include and exclude sub-conditions
SubConditionArgs(args) == <<>>

\* the callback of Promise.join in satisfiedBy
Condition_joinSome(test, include, exclude) ==
    BoolRes(/\ test = "true"
            /\ \E i \in DOMAIN include : include[i] = "true"
            /\ ~ \E i \in DOMAIN exclude : exclude[i] = "true")
Condition_join(test, include, exclude) ==
    BoolRes(/\ test = "true"
            /\ \A i \in DOMAIN include : include[i] = "true"
            /\ ~ \E i \in DOMAIN exclude : exclude[i] = "true")

\* Promise.method(condition(...args)).then(Boolean): condition is called, then
\* Promise.method is handed its result, which is no function (or is one, and
\* the function Promise.method returns has no then)
FunctionCondition_test(c, args) ==
    IF c.ret = "throw" THEN "FunctionError" ELSE "TypeError"

RECURSIVE satisfiedBy(_, _)
\* this.test(...args), by the type of the specification
Condition_test(c, args) ==
    CASE c.kind = "boolean" -> BoolRes(c.b)
      [] c.kind = "string" ->
            IF AbsPath(args).t = "undefined" THEN "TypeError"
            ELSE BoolRes(startsWith(AbsPath(args).s, c.s))
      [] c.kind = "function" -> FunctionCondition_test(c, args)
      [] c.kind = "regexp" -> BoolRes(RegExp_test(c, AbsPath(args)))
      [] c.kind = "condition" -> satisfiedBy(c.c, args)
      [] c.kind = "object" ->
            IF c.test.kind = "none" THEN "true" ELSE satisfiedBy(c.test, args)
      [] OTHER -> "true"

satisfiedBy(c, args) ==
    LET test == Condition_test(c, args)
        incs == Condition_include(c)
        excs == Condition_exclude(c)
        include == [i \in DOMAIN incs |-> satisfiedBy(incs[i], SubConditionArgs(args))]
        exclude == [i \in DOMAIN excs |-> satisfiedBy(excs[i], SubConditionArgs(args))]
    IN  IF IsError(test) THEN test
        ELSE IF FirstError(include) # "" THEN FirstError(include)
        ELSE IF FirstError(exclude) # "" THEN FirstError(exclude)
        ELSE Condition_join(test, include, exclude)

(***************************************************************************)
(* The inputs of the Condition evaluator.                                  *)
(***************************************************************************)
MaxList == 2

PathS == <<"/", "s", "/", "y">>
PathT == <<"/", "t", "/", "d">>
Paths == {PathS, PathT}

Context == [destDir |-> <<"/", "o">>]

Lists(S) == UNION {[1..n -> S] : n \in 0..MaxList}

SubLeafSpecs == {RegExpSpec(<<"y">>), RegExpSpec(<<"d">>), StringSpec(<<"/", "s">>)}

LeafSpecs == SubLeafSpecs
                \cup {BooleanSpec(TRUE), BooleanSpec(FALSE)}
                \cup {FunctionSpec(r) : r \in FunctionReturns}

ListSpecs == {ArraySpec(l) : l \in Lists(SubLeafSpecs)}

TestSpecs == LeafSpecs \cup ListSpecs
                \cup {[kind |-> "condition", c |-> s] : s \in SubLeafSpecs}

ObjectSpecs ==
    {ObjectSpec(t, i, e) : t \in TestSpecs \cup {NoKey},
                           i \in ListSpecs \cup SubLeafSpecs \cup {NoKey},
                           e \in ListSpecs \cup {NoKey}}

(***************************************************************************)
(* The Handler tree.  handlers[h] = [parent, cond, dest, use]: parent is 0 *)
(* for the top-level Handler; cond is the object _.pick gives Condition    *)
(* .cast; dest is the destination function, if any; use is the list of     *)
(* loaders of the UseEntries.                                              *)
(***************************************************************************)
NumHandlers == 3
MaxSteps == 2
MaxChain == 3
MaxCalls == 3

Nodes == DOMAIN handlers
Root == 1
Children(h) == {f \in Nodes : handlers[f].parent = h}

RECURSIVE Ancestors(_)
Ancestors(h) ==
    IF handlers[h].parent = 0 THEN {}
    ELSE {handlers[h].parent} \cup Ancestors(handlers[h].parent)

Descendants(h) == {d \in Nodes : h \in Ancestors(d)}

\* the source file the Handler is asked about
SourceDir == <<"/", "s">>
SourceRelativePath == <<"y">>
SourceAbsolutePath == PathS
SourceText == <<"x">>
DestDir == <<"/", "o">>

path_join(dir, rel) == dir \o <<"/">> \o rel

\* Handler.getDefaultDestination
getDefaultDestinationOfSource == SourceAbsolutePath
getDefaultDestination == path_join(DestDir, SourceRelativePath)

\* handlerDef.destination || ((defaultDestination) => defaultDestination)
Handler_getDestination(h, defaultDestination) ==
    CASE handlers[h].dest = "default" -> Str(defaultDestination)
      [] handlers[h].dest = "suffix" -> Str(defaultDestination \o <<".", "j">>)
      [] handlers[h].dest = "relative" -> Str(<<"r">>)
      [] handlers[h].dest = "empty" -> Str(<<>>)
      [] OTHER -> Undefined

\* the destination function throws, or returns a promise that rejects:
\* Promise.method makes both a rejected promise
Handler_destinationFails(h) == handlers[h].dest \in {"throw", "reject"}

\* this.getDefaultDestination(handlerContext) in _getOutputGenerator: the
\* handlerContext of a fork is a copy of its parent's and holds the same
\* destDir and source
Handler_defaultDestinationUnderParent(h) ==
    IF handlers[h].parent # 0 /\ genDest[handlers[h].parent].t = "str"
    THEN path_join(genDest[handlers[h].parent].s, SourceRelativePath)
    ELSE getDefaultDestination
Handler_defaultDestination(h) == getDefaultDestination

\* this._satisfied(source.absolutePath, handlerContext)
Handler_satisfied(h) ==
    satisfiedBy(handlers[h].cond, <<Str(SourceAbsolutePath), Context>>)

\* the forks _getOutputGeneratorsForSource recurses into
ForksVisitedAlways(h, satisfied) == Children(h)
ForksVisited(h, satisfied) == IF satisfied = "true" THEN Children(h) ELSE {}

\* the promise getOutputGeneratorsForSource returns: Promise.all over the
\* Handler's own generator and the lists of its forks
Outputs ==
    IF \E h \in Nodes : match[h] = "rejected" THEN "rejected"
    ELSE IF \E h \in Nodes : match[h] = "called" THEN "pending"
    ELSE IF match[Root] = "idle" THEN "pending"
    ELSE "fulfilled"

\* the OutputGenerators of the fulfilled list
Generators == {h \in Nodes : match[h] = "matched"}

(***************************************************************************)
(* Loaders.  A loader is given by the function of the content it computes: *)
(* "append" returns the content with a marker appended, "length" returns   *)
(* the number content.length.  Whether it returns, throws, or returns      *)
(* nothing is its own choice at each invocation.  sets is the value it     *)
(* assigns to this.value before it returns, NoKey when it assigns none.    *)
(***************************************************************************)
LoaderKinds == {"append", "length"}

Loader_apply(loader, content) ==
    CASE loader.fn = "append" -> Str(content \o <<loader.marker>>)
      [] loader.fn = "length" -> Num(Len(content))

\* loaderContext.value when callback reads it: loaderContext is a fresh
\* object with inputValue, and value is what the loader assigned to it
loaderContext_valueOfInput(loader, input) ==
    IF loader.sets = NoKey THEN input.value ELSE loader.sets
loaderContext_value(loader, input) ==
    IF loader.sets = NoKey THEN Undefined ELSE loader.sets

\* what callback(null, newContent) fulfils the step with
UseEntry_output(loader, input) ==
    [content |-> String(Loader_apply(loader, input.content)),
     value |-> loaderContext_value(loader, input)]

\* Promise.resolve(initialInput), the initial value of the reduce over the
\* use entries, and the result of Handler.transform when there are none
reduceInitialEmpty(initialInput) == [content |-> <<>>, value |-> Undefined]
reduceInitial(initialInput) == initialInput

\* the input Handler.transform hands to the next step: the previous output
StepInputInitial(t, initialInput) == initialInput
StepInput(t, initialInput) == t.cur

\* the step Handler.transform runs next
NextStepIndex(t) == t.done + 1

\* R.memoize(getTransformation): the chain is started on a miss only
MemoAlwaysMiss(t) == TRUE
MemoMiss(t) == t.st = "unset"

\* a failed step rejects the promise the later steps are chained on
AfterFailureContinue(t, k) == [t EXCEPT !.done = k, !.inflight = FALSE]
AfterFailure(t, k) == [t EXCEPT !.st = "rejected", !.inflight = FALSE]

\* the error step k of the chain of h throws, wrapped by Handler.transform
StepError(h, k) == <<h, k>>

\* getInput().then((input) => this.transform(handlerContext, input)) when
\* getInput() has rejected: the then-callback is skipped and the promise
\* rejects with the same error
AfterInputFailureFallsBack(t, error) ==
    [t EXCEPT !.started = TRUE,
              !.initial = [content |-> SourceText, value |-> Undefined],
              !.cur = [content |-> SourceText, value |-> Undefined]]
AfterInputFailure(t, error) == [t EXCEPT !.st = "rejected", !.error = error]

AfterSuccess(h, t, k, out) ==
    [t EXCEPT !.cur = out, !.done = k, !.inflight = FALSE,
              !.st = IF k = Len(handlers[h].use) THEN "fulfilled" ELSE "pending"]

TransUnset ==
    [st |-> "unset", started |-> FALSE, done |-> 0, inflight |-> FALSE,
     failedAt |-> 0, failedBy |-> "", error |-> <<>>,
     initial |-> [content |-> <<>>, value |-> Undefined],
     cur |-> [content |-> <<>>, value |-> Undefined]]

\* the Handlers whose getTransformation a generateOutput of h calls: h, and
\* through getInput each ancestor up to the first one that is memoized
ForcedEveryGenerator(h) == {x \in Nodes : match[x] = "matched" /\ trans[x].st = "unset"}
RECURSIVE Forced(_)
Forced(h) ==
    IF ~ MemoMiss(trans[h]) THEN {}
    ELSE IF handlers[h].parent = 0 THEN {h}
    ELSE {h} \cup Forced(handlers[h].parent)

\* getInput(): the source text for the top-level Handler, the parent's
\* transformation for a fork
InputReady(h) ==
    IF handlers[h].parent = 0 THEN read = "done"
    ELSE trans[handlers[h].parent].st = "fulfilled"

InputFailed(h) ==
    /\ handlers[h].parent # 0
    /\ trans[handlers[h].parent].st = "rejected"

InputRawSource(h) == [content |-> SourceText, value |-> Undefined]
Input(h) ==
    IF handlers[h].parent = 0
    THEN [content |-> SourceText, value |-> Undefined]
    ELSE trans[handlers[h].parent].cur

Invocations(h, k) == Cardinality({i \in DOMAIN stepLog[h] : stepLog[h][i].k = k})

(***************************************************************************)
(* The run driver, main(config) of src/main.js.  A handler of its          *)
(* configuration is [test, output]; the source tree is the set Files of    *)
(* paths relative to sourceDir.                                            *)
(***************************************************************************)
MaxMainHandlers == 2
MaxWalkErrors == 1

Files == {<<"a">>, <<"b">>}
MainDestDir == <<"/", "o">>

OutputSpecs == {NoKey, [kind |-> "string", s |-> <<"z">>],
                [kind |-> "function", fn |-> "suffix"],
                [kind |-> "function", fn |-> "falsy"]}
MainTestSpecs == {NoKey, BooleanSpec(TRUE), RegExpSpec(<<"b">>)}

\* applyTest(test, filePath): truthy or not
applyTest(test, filePath) ==
    CASE test.kind = "regexp" -> RegExp_test(test, Str(filePath))
      [] test.kind = "boolean" -> test.b
      [] test.kind = "none" -> filePath # <<>>
      [] OTHER -> FALSE

\* applyOutputFunction(output, relativeSourcePath, fileInfo): a path, or
\* Undefined for a falsy result
applyOutputFunction(output, relativeSourcePath) ==
    CASE output.kind = "none" -> Str(relativeSourcePath)
      [] output.kind = "function" ->
            IF output.fn = "suffix" THEN Str(relativeSourcePath \o <<".", "j">>)
            ELSE Undefined
      [] output.kind = "string" -> Str(output.s)
      [] OTHER -> Undefined

\* path.resolve(destDir, outputPath) of a relative outputPath
path_resolve(dir, rel) == dir \o <<"/">> \o rel

\* the handlers processOneModule selects for a file, in order
Selects(f, i) ==
    /\ applyTest(mHandlers[i].test, f)
    /\ applyOutputFunction(mHandlers[i].output, f).t = "str"

selectedHandlers(f) == {i \in DOMAIN mHandlers : Selects(f, i)}

outputPath(f, i) ==
    path_resolve(MainDestDir, applyOutputFunction(mHandlers[i].output, f).s)

\* the byOutput reduce of processOneModule throws
SameOutputInFile(f) ==
    \E i, j \in selectedHandlers(f) : i # j /\ outputPath(f, i) = outputPath(f, j)

\* the Error the byOutput reduce throws: what its message names, which is
\* the input file and neither a destination nor a handler
byOutputError(f) == [file |-> f, destinations |-> {}, origins |-> {}]

\* OutputGenerator.getOrigin()
getOrigin == Undefined

Pairs == Files \X (1..MaxMainHandlers)

\* errors.push(wrapError(...)): an entry is [kind, file, n], for the n-th
\* error of the walk or for a file whose processing failed
pushInPlaceOfAll(array, entry) == {entry}
push(array, entry) == array \cup {entry}

MainStart ==
    /\ remaining = Files
    /\ walkErrors = 0
    /\ ended = FALSE
    /\ fileState = [f \in Files |-> "unseen"]
    /\ tasks = [p \in Pairs |-> "none"]
    /\ mWrites = {}
    /\ errors = {}
    /\ mResult = "pending"
    /\ uncaught = FALSE

MainIdle ==
    /\ mHandlers = <<>>
    /\ remaining = {}
    /\ walkErrors = 0
    /\ ended = FALSE
    /\ fileState = <<>>
    /\ tasks = <<>>
    /\ mWrites = {}
    /\ errors = {}
    /\ mResult = "idle"
    /\ uncaught = FALSE

(***************************************************************************)
(* The construction of a Configuration.  An object of the configuration is *)
(* given by its own keys and the value of its __strict__ property.  A      *)
(* handler definition is [keys, test, use]; a use entry is a string, a     *)
(* function or an object [keys, strict, loader]; a loader definition is    *)
(* given by its type.                                                      *)
(***************************************************************************)
MaxCfgHandlers == 1
MaxUse == 2
NumFiles == 2

KnownConditionKeys == {"test", "include", "exclude", "__strict__"}
KnownUseEntryKeys == {"loader", "options", "ident", "__strict__"}

\* const {..., __strict__ = true} = object; if (__strict__)
StrictNever(object) == FALSE
Strict(object) ==
    IF object.strict = Undefined THEN TRUE ELSE Truthy(object.strict)

\* R.without(known, Object.keys(object))
UnknownKeys(object, known) == object.keys \ known

\* new Condition(condition) throws
Condition_throws(c) ==
    /\ c.kind = "object"
    /\ Strict(c)
    /\ UnknownKeys(c, KnownConditionKeys) # {}

\* _.pick(handlerDef, ['test', 'include', 'exclude'])
pick(object, names) ==
    [kind |-> "object", keys |-> object.keys \cap names, strict |-> Undefined]

\* Condition.cast(_.pick(handlerDef, ...)) throws: in the constructor of the
\* picked object, or in the one of its test
Handler_conditionThrows(hd) ==
    \/ Condition_throws(pick(hd, {"test", "include", "exclude"}))
    \/ Condition_throws(hd.test)

UseEntry_loaderDef(u) == IF u.form = "object" THEN u.loader ELSE u.form

\* new Loader(options, loaderDef) throws: the default branch of the switch
Loader_throws(loaderDef) == loaderDef \notin {"function", "string"}

\* new UseEntry(options, useEntry) throws
UseEntry_throws(u) ==
    \/ /\ u.form = "object"
       /\ Strict(u)
       /\ UnknownKeys(u, KnownUseEntryKeys) # {}
    \/ Loader_throws(UseEntry_loaderDef(u))

\* the objects the constructors build, in order: <<h, 0>> is the Condition
\* of handler h, <<h, k>> its k-th UseEntry
Positions == {p \in (DOMAIN cfgDef) \X (0..MaxUse + 1) : p[2] <= Len(cfgDef[p[1]].use)}
Steps == {p \in Positions : p[2] > 0}
Before(p, q) == p[1] < q[1] \/ (p[1] = q[1] /\ p[2] < q[2])

ThrowsAt(p) ==
    IF p[2] = 0 THEN Handler_conditionThrows(cfgDef[p[1]])
    ELSE UseEntry_throws(cfgDef[p[1]].use[p[2]])

ConstructorThrows == \E p \in Positions : ThrowsAt(p)

\* the constructor call at p has returned
Built(p) == ~ \E q \in Positions : (q = p \/ Before(q, p)) /\ ThrowsAt(q)

\* a Loader: the state of _promiseForLoader, the number of importNamedModule
\* calls made for it, and the callable the promise is fulfilled with (0 is
\* the function of the definition, n the module of the n-th import)
NoLoader == [promise |-> "none", imports |-> 0, callable |-> 0]

Loader_new(loaderDef) ==
    IF loaderDef = "function"
    THEN [promise |-> "fulfilled", imports |-> 0, callable |-> 0]
    ELSE [promise |-> "pending", imports |-> 1, callable |-> 0]

\* Loader.asPromised(): return this._promiseForLoader
Loader_asPromisedFresh(l) ==
    IF l.imports = 0 THEN l
    ELSE [promise |-> "pending", imports |-> l.imports + 1, callable |-> 0]
Loader_asPromised(l) == l

NoChain == [st |-> "none", done |-> 0, awaiting |-> FALSE, failedAt |-> 0, error |-> ""]

\* asPromised().catch((error) => { throw wrapError(...) }): the then-callback
\* that calls the loader is skipped and the step rejects
ImportFailedSkipsStep(c, k, last) ==
    [c EXCEPT !.awaiting = FALSE, !.done = k,
              !.st = IF k = last THEN "fulfilled" ELSE "running"]
ImportFailed(c, k, last) ==
    [c EXCEPT !.awaiting = FALSE, !.st = "rejected", !.failedAt = k, !.error = "import"]

CfgIdle ==
    /\ cfgDef = <<>>
    /\ cfgFiles = {}
    /\ cfgState = "idle"
    /\ loaders = <<>>
    /\ visited = {}
    /\ chain = <<>>
    /\ invoked = {}

CfgStart ==
    /\ cfgState = "new"
    /\ loaders = [p \in Steps |-> NoLoader]
    /\ visited = {}
    /\ chain = [c \in cfgFiles \X DOMAIN cfgDef |-> NoChain]
    /\ invoked = {}

(***************************************************************************)
(* One loader step of transpile (src/main.js): the loader gets the         *)
(* callback through this.async().  A loader is given by what it does: the  *)
(* callback calls it makes while it runs, how it ends (it returns a value, *)
(* returns nothing, or throws), and the callback calls it makes later.  A  *)
(* callback call is [err]: callback(error) or callback(null, content).     *)
(***************************************************************************)
MaxSignals == 2

PendingPromise == [st |-> "pending", v |-> Undefined]

\* fulfill(value), reject(error): only a pending promise is settled
Promise_settleAgain(p, st, v) == [st |-> st, v |-> v]
Promise_settle(p, st, v) == IF p.st = "pending" THEN [st |-> st, v |-> v] ELSE p

\* the arguments of the i-th signal of the loader
SignalError(i) == Str(<<"e", DigitChar(i)>>)
SignalContent(i) == Str(<<"c", DigitChar(i)>>)
ReturnedContent == Num(7)
ThrownError == Str(<<"t">>)

\* callback(error, newContent)
callback(p, error, newContent) ==
    IF Truthy(error) THEN Promise_settle(p, "rejected", error)
    ELSE Promise_settle(p, "fulfilled",
                        [content |-> String(newContent), value |-> Undefined])

\* what a signal asks for: the outcome it would give a pending promise
Asked(error, newContent) == callback(PendingPromise, error, newContent)

\* the callback calls sigs, the first of them being the i-th signal
RECURSIVE Callbacks(_, _, _)
Callbacks(p, sigs, i) ==
    IF sigs = <<>> THEN p
    ELSE Callbacks(callback(p, IF Head(sigs).err THEN SignalError(i) ELSE Undefined,
                            SignalContent(i)),
                   Tail(sigs), i + 1)

RECURSIVE AskedBy(_, _)
AskedBy(sigs, i) ==
    IF sigs = <<>> THEN <<>>
    ELSE <<Asked(IF Head(sigs).err THEN SignalError(i) ELSE Undefined, SignalContent(i))>>
            \o AskedBy(Tail(sigs), i + 1)

SignalLists == UNION {[1..n -> {[err |-> TRUE], [err |-> FALSE]}] : n \in 0..MaxSignals}

LoaderScripts == [pre : SignalLists, ret : {"value", "undefined", "throw"}, post : SignalLists]

(***************************************************************************)
(* Initial states.                                                         *)
(***************************************************************************)
StepIdle ==
    /\ ldr = <<>>
    /\ lPhase = "idle"
    /\ lPromise = <<>>
    /\ lResult = <<>>
    /\ lSignals = <<>>
    /\ lPost = <<>>

FanIdle ==
    /\ fanCfg = <<>>
    /\ fanWalk = <<>>
    /\ fanEvals = <<>>
    /\ fanOut = <<>>

WrapIdle ==
    /\ wOrigin = <<>>
    /\ wPath = <<>>
    /\ wErr = <<>>

CliIdle ==
    /\ exitCode = <<>>

CtxIdle ==
    /\ ctxHeap = <<>>
    /\ ctxOf = <<>>
    /\ ctxSeen = <<>>

VisitIdle ==
    /\ vWalk = <<>>
    /\ vResults = <<>>
    /\ vPromise = <<>>
    /\ vSettled = <<>>

ResolveIdle ==
    /\ rqRequest = <<>>
    /\ rqTranspile = <<>>
    /\ rqCatch = <<>>
    /\ rqThen = <<>>
    /\ rqCalls = <<>>

ExtIdle == FanIdle /\ WrapIdle /\ CliIdle /\ CtxIdle /\ VisitIdle /\ ResolveIdle

fanFrame == <<condVars, treeVars, mainVars, cfgVars, stepVars, srcVars, wrapVars, cliVars, ctxVars, visitVars, resolveVars>>

FanOthersIdle == WrapIdle /\ CliIdle /\ CtxIdle /\ VisitIdle /\ ResolveIdle

wrapFrame == <<condVars, treeVars, mainVars, cfgVars, stepVars, srcVars, fanVars, cliVars, ctxVars, visitVars, resolveVars>>

WrapOthersIdle == FanIdle /\ CliIdle /\ CtxIdle /\ VisitIdle /\ ResolveIdle

cliFrame == <<condVars, treeVars, mainVars, cfgVars, stepVars, srcVars, fanVars, wrapVars, ctxVars, visitVars, resolveVars>>

CliOthersIdle == FanIdle /\ WrapIdle /\ CtxIdle /\ VisitIdle /\ ResolveIdle

ctxFrame == <<condVars, treeVars, mainVars, cfgVars, stepVars, srcVars, fanVars, wrapVars, cliVars, visitVars, resolveVars>>

CtxOthersIdle == FanIdle /\ WrapIdle /\ CliIdle /\ VisitIdle /\ ResolveIdle

visitFrame == <<condVars, treeVars, mainVars, cfgVars, stepVars, srcVars, fanVars, wrapVars, cliVars, ctxVars, resolveVars>>

VisitOthersIdle == FanIdle /\ WrapIdle /\ CliIdle /\ CtxIdle /\ ResolveIdle

resolveFrame == <<condVars, treeVars, mainVars, cfgVars, stepVars, srcVars, fanVars, wrapVars, cliVars, ctxVars, visitVars>>

ResolveOthersIdle == FanIdle /\ WrapIdle /\ CliIdle /\ CtxIdle /\ VisitIdle

SrcIdle ==
    /\ sfPromise = <<>>
    /\ sfReads = 0
    /\ sfStats = 0
    /\ sfMade = <<>>
    /\ sfReturned = <<>>
    /\ sfCalls = 0

CondIdle ==
    /\ cSpec = NoKey
    /\ cArgs = <<>>
    /\ cResult = "idle"

TreeStart(N) ==
    /\ match = [h \in 1..N |-> "idle"]
    /\ matchError = [h \in 1..N |-> ""]
    /\ condEvaluated = {}
    /\ destEvaluated = {}
    /\ genDest = [h \in 1..N |-> Undefined]
    /\ read = "unread"
    /\ trans = [h \in 1..N |-> TransUnset]
    /\ stepLog = [h \in 1..N |-> <<>>]
    /\ waiting = [h \in 1..N |-> 0]
    /\ written = [h \in 1..N |-> 0]
    /\ failed = [h \in 1..N |-> 0]
    /\ calls = 0

TreeIdle ==
    /\ handlers = <<>>
    /\ TreeStart(0)

InitCond ==
    /\ CfgIdle
    /\ StepIdle
    /\ SrcIdle
    /\ ExtIdle
    /\ cSpec \in ObjectSpecs \cup ListSpecs
    /\ cArgs \in {<<Str(p), Context>> : p \in Paths}
    /\ cResult = "pending"
    /\ TreeIdle
    /\ MainIdle

\* the chain of Handler h with n steps, each appending its own marker; the
\* steps of setting assign a value of their own to this.value
StepValue(h, k) == Num(10 * h + k)

AppendChain(h, n, setting) ==
    [k \in 1..n |-> [fn |-> "append", marker |-> DigitChar(h),
                     sets |-> IF k \in setting THEN StepValue(h, k) ELSE NoKey]]

HandlerTests == {StringSpec(<<"/", "s">>), RegExpSpec(<<"d">>)}

\* the trees: a fork's parent is the top-level Handler or the fork before it
TreeShapes ==
    {p \in [1..NumHandlers -> 0..NumHandlers] :
        /\ p[1] = 0
        /\ \A h \in 2..NumHandlers : p[h] \in {1, h - 1}}

Init ==
    /\ CfgIdle
    /\ StepIdle
    /\ SrcIdle
    /\ ExtIdle
    /\ CondIdle
    /\ \E p \in TreeShapes, c \in [1..NumHandlers -> HandlerTests], n \in 0..MaxSteps,
          m \in 0..1, setting \in SUBSET (1..MaxSteps) :
          handlers = [h \in 1..NumHandlers |->
                        [parent |-> p[h],
                         cond |-> ObjectSpec(c[h], NoKey, NoKey),
                         dest |-> IF h = 2 THEN "suffix" ELSE "default",
                         use |-> AppendChain(h, CASE h = 1 -> n
                                                     [] h = NumHandlers -> m
                                                     [] OTHER -> 1, setting)]]
    /\ TreeStart(NumHandlers)
    /\ MainIdle

\* the destination functions and Conditions a Handler may have besides the
\* defaults
DestKinds == {"suffix", "relative", "empty", "undefined", "throw", "reject"}
FailingTests == {FunctionSpec("throw"), FunctionSpec("promiseReject")}

\* trees in which one Handler has a destination function or a failing
\* predicate
InitDest ==
    /\ CondIdle
    /\ CfgIdle
    /\ StepIdle
    /\ SrcIdle
    /\ ExtIdle
    /\ \E p \in TreeShapes, s \in 1..NumHandlers,
          d \in DestKinds \cup {"default"}, c \in FailingTests \cup {StringSpec(<<"/", "s">>)} :
          /\ (d = "default") # (c = StringSpec(<<"/", "s">>))
          /\ handlers = [h \in 1..NumHandlers |->
                            [parent |-> p[h],
                             cond |-> ObjectSpec(IF h = s THEN c ELSE StringSpec(<<"/", "s">>),
                                                 NoKey, NoKey),
                             dest |-> IF h = s THEN d ELSE "default",
                             use |-> AppendChain(h, 1, {})]]
    /\ TreeStart(NumHandlers)
    /\ MainIdle

Chains ==
    UNION {[1..n -> {[fn |-> f, marker |-> "m", sets |-> v] :
                        f \in LoaderKinds, v \in {NoKey, Num(1)}}] : n \in 0..MaxChain}

InitChain ==
    /\ CfgIdle
    /\ StepIdle
    /\ SrcIdle
    /\ ExtIdle
    /\ CondIdle
    /\ \E u \in Chains :
          handlers = <<[parent |-> 0,
                        cond |-> ObjectSpec(StringSpec(<<"/", "s">>), NoKey, NoKey),
                        dest |-> "default",
                        use |-> u]>>
    /\ TreeStart(1)
    /\ MainIdle

(***************************************************************************)
(* Actions.                                                                *)
(***************************************************************************)
\* Handler._satisfied(source.absolutePath, handlerContext)
Evaluate ==
    /\ cResult = "pending"
    /\ cResult' = satisfiedBy(cSpec, cArgs)
    /\ UNCHANGED <<cSpec, cArgs>>
    /\ UNCHANGED <<cfgVars, stepVars, srcVars, extVars>>
    /\ UNCHANGED treeVars
    /\ UNCHANGED mainVars

\* Handler.getOutputGeneratorsForSource(source): the Condition of the
\* top-level Handler is evaluated in the call
GetOutputGeneratorsForSource ==
    /\ match[Root] = "idle"
    /\ match' = [match EXCEPT ![Root] = "called"]
    /\ condEvaluated' = condEvaluated \cup {Root}
    /\ UNCHANGED <<handlers, matchError, destEvaluated, genDest, read, trans, stepLog,
                   waiting, written, failed, calls>>
    /\ UNCHANGED condVars
    /\ UNCHANGED <<cfgVars, stepVars, srcVars, extVars>>
    /\ UNCHANGED mainVars

\* the then-callback of _getOutputGeneratorsForSource on the Condition's
\* outcome: the destination function is called and every fork is entered,
\* which evaluates the fork's Condition
Satisfied(h) ==
    /\ match[h] = "called"
    /\ LET satisfied == Handler_satisfied(h)
           forks == ForksVisited(h, satisfied)
       IN  /\ match' = [x \in Nodes |->
                          IF x = h THEN (CASE IsError(satisfied) -> "rejected"
                                           [] satisfied = "true" ->
                                                IF Handler_destinationFails(h)
                                                THEN "rejected" ELSE "matched"
                                           [] OTHER -> "empty")
                          ELSE IF x \in forks THEN "called"
                          ELSE match[x]]
           /\ matchError' = [matchError EXCEPT ![h] =
                                CASE IsError(satisfied) -> satisfied
                                  [] satisfied = "true" /\ Handler_destinationFails(h) ->
                                        "DestinationError"
                                  [] OTHER -> ""]
           /\ condEvaluated' = condEvaluated \cup forks
           /\ IF satisfied = "true"
              THEN /\ destEvaluated' = destEvaluated \cup {h}
                   /\ genDest' = [genDest EXCEPT
                                    ![h] = Handler_getDestination(h, Handler_defaultDestination(h))]
              ELSE UNCHANGED <<destEvaluated, genDest>>
    /\ UNCHANGED <<handlers, read, trans, stepLog, waiting, written, failed, calls>>
    /\ UNCHANGED condVars
    /\ UNCHANGED <<cfgVars, stepVars, srcVars, extVars>>
    /\ UNCHANGED mainVars

\* generator.generateOutput(): getOutput() starts the memoized transformation
\* of the Handler and, through getInput, of its ancestors
GenerateOutput(h) ==
    /\ Outputs = "fulfilled"
    /\ h \in Generators
    /\ calls < MaxCalls
    /\ calls' = calls + 1
    /\ waiting' = [waiting EXCEPT ![h] = @ + 1]
    /\ trans' = [x \in Nodes |->
                    IF x \in Forced(h) THEN [TransUnset EXCEPT !.st = "pending"]
                    ELSE trans[x]]
    /\ read' = IF Root \in Forced(h) /\ read = "unread" THEN "reading" ELSE read
    /\ UNCHANGED <<handlers, matchError, match, condEvaluated, destEvaluated, genDest,
                   stepLog, written, failed>>
    /\ UNCHANGED condVars
    /\ UNCHANGED <<cfgVars, stepVars, srcVars, extVars>>
    /\ UNCHANGED mainVars

\* source.getContentString() fulfils
ReadDone ==
    /\ read = "reading"
    /\ read' = "done"
    /\ UNCHANGED <<handlers, matchError, match, condEvaluated, destEvaluated, genDest,
                   trans, stepLog, waiting, written, failed, calls>>
    /\ UNCHANGED condVars
    /\ UNCHANGED <<cfgVars, stepVars, srcVars, extVars>>
    /\ UNCHANGED mainVars

\* getInput().then((input) => this.transform(handlerContext, input))
Transform(h) ==
    /\ trans[h].st = "pending"
    /\ ~ trans[h].started
    /\ \/ /\ InputReady(h)
          /\ trans' = [trans EXCEPT ![h] =
                [@ EXCEPT !.started = TRUE, !.initial = Input(h),
                          !.cur = reduceInitial(Input(h)),
                          !.st = IF Len(handlers[h].use) = 0
                                 THEN "fulfilled" ELSE "pending"]]
       \/ /\ InputFailed(h)
          /\ trans' = [trans EXCEPT ![h] =
                AfterInputFailure(@, trans[handlers[h].parent].error)]
    /\ UNCHANGED <<handlers, matchError, match, condEvaluated, destEvaluated, genDest, read,
                   stepLog, waiting, written, failed, calls>>
    /\ UNCHANGED condVars
    /\ UNCHANGED <<cfgVars, stepVars, srcVars, extVars>>
    /\ UNCHANGED mainVars

\* UseEntry.transform(input, handlerContext): the loader is called; it
\* returns the new content, throws, or returns nothing.  callback is local to
\* transform and is not in loaderContext, so the loader that returns nothing
\* cannot settle the promise of the step
InvokeStep(h) ==
    /\ trans[h].st = "pending"
    /\ trans[h].started
    /\ ~ trans[h].inflight
    /\ LET k == NextStepIndex(trans[h])
           input == StepInput(trans[h], trans[h].initial)
       IN  /\ k \in 1..Len(handlers[h].use)
           /\ stepLog' = [stepLog EXCEPT ![h] = Append(@, [k |-> k, input |-> input])]
           /\ \/ trans' = [trans EXCEPT ![h] =
                    AfterSuccess(h, @, k, UseEntry_output(handlers[h].use[k], input))]
              \/ trans' = [trans EXCEPT ![h] =
                    [AfterFailure(@, k) EXCEPT !.failedAt = k, !.failedBy = "throw",
                                               !.error = StepError(h, k)]]
              \/ trans' = [trans EXCEPT ![h] = [@ EXCEPT !.inflight = TRUE, !.cur = input]]
    /\ UNCHANGED <<handlers, matchError, match, condEvaluated, destEvaluated, genDest, read,
                   waiting, written, failed, calls>>
    /\ UNCHANGED condVars
    /\ UNCHANGED <<cfgVars, stepVars, srcVars, extVars>>
    /\ UNCHANGED mainVars

\* the then-callback of generateOutput: mkdirp, then writeFile; path.dirname
\* throws on a destination that is no string and writeFile fails on ''
Write(h) ==
    /\ waiting[h] > 0
    /\ trans[h].st = "fulfilled"
    /\ Truthy(genDest[h])
    /\ waiting' = [waiting EXCEPT ![h] = @ - 1]
    /\ written' = [written EXCEPT ![h] = @ + 1]
    /\ UNCHANGED <<handlers, matchError, match, condEvaluated, destEvaluated, genDest, read,
                   trans, stepLog, failed, calls>>
    /\ UNCHANGED condVars
    /\ UNCHANGED <<cfgVars, stepVars, srcVars, extVars>>
    /\ UNCHANGED mainVars

\* generateOutput rejects with the failure of the transformation, or with
\* the one of writing to a destination that is no path
RejectOutput(h) ==
    /\ waiting[h] > 0
    /\ \/ trans[h].st = "rejected"
       \/ trans[h].st = "fulfilled" /\ ~ Truthy(genDest[h])
    /\ waiting' = [waiting EXCEPT ![h] = @ - 1]
    /\ failed' = [failed EXCEPT ![h] = @ + 1]
    /\ UNCHANGED <<handlers, matchError, match, condEvaluated, destEvaluated, genDest, read,
                   trans, stepLog, written, calls>>
    /\ UNCHANGED condVars
    /\ UNCHANGED <<cfgVars, stepVars, srcVars, extVars>>
    /\ UNCHANGED mainVars

InitMain ==
    /\ CfgIdle
    /\ StepIdle
    /\ SrcIdle
    /\ ExtIdle
    /\ CondIdle
    /\ TreeIdle
    /\ mHandlers \in UNION {[1..n -> [test : MainTestSpecs, output : OutputSpecs]] :
                              n \in 1..MaxMainHandlers}
    /\ MainStart

\* a configuration whose handlers take every file or the files ending in b
\* and write them under their own name or with a suffix
InitMainRun ==
    /\ CfgIdle
    /\ StepIdle
    /\ SrcIdle
    /\ ExtIdle
    /\ CondIdle
    /\ TreeIdle
    /\ mHandlers \in UNION {[1..n -> [test : {NoKey, RegExpSpec(<<"b">>)},
                                      output : {NoKey, [kind |-> "function", fn |-> "suffix"]}]] :
                              n \in 1..MaxMainHandlers}
    /\ MainStart

\* walker.on('file'): processOneModule selects the handlers, checks their
\* outputs against each other and starts one transpile per selected handler;
\* the exception of the check is thrown in the event handler
WalkerFile(f) ==
    /\ ~ uncaught
    /\ f \in remaining
    /\ remaining' = remaining \ {f}
    /\ IF SameOutputInFile(f)
       THEN /\ uncaught' = TRUE
            /\ UNCHANGED <<fileState, tasks>>
       ELSE /\ fileState' = [fileState EXCEPT ![f] = "processing"]
            /\ tasks' = [p \in Pairs |->
                            IF p[1] = f /\ p[2] \in selectedHandlers(f)
                            THEN "transpiling" ELSE tasks[p]]
            /\ UNCHANGED uncaught
    /\ UNCHANGED <<mHandlers, walkErrors, ended, mWrites, errors, mResult>>
    /\ UNCHANGED condVars
    /\ UNCHANGED <<cfgVars, stepVars, srcVars, extVars>>
    /\ UNCHANGED treeVars

\* walker.on('errors')
WalkerErrors ==
    /\ ~ uncaught
    /\ ~ ended
    /\ walkErrors < MaxWalkErrors
    /\ walkErrors' = walkErrors + 1
    /\ errors' = push(errors, [kind |-> "walk", file |-> <<>>, n |-> walkErrors + 1])
    /\ UNCHANGED <<mHandlers, remaining, ended, fileState, tasks, mWrites,
                   mResult, uncaught>>
    /\ UNCHANGED condVars
    /\ UNCHANGED <<cfgVars, stepVars, srcVars, extVars>>
    /\ UNCHANGED treeVars

\* walker.on('end')
WalkerEnd ==
    /\ ~ uncaught
    /\ ~ ended
    /\ remaining = {}
    /\ ended' = TRUE
    /\ UNCHANGED <<mHandlers, remaining, walkErrors, fileState, tasks, mWrites,
                   errors, mResult, uncaught>>
    /\ UNCHANGED condVars
    /\ UNCHANGED <<cfgVars, stepVars, srcVars, extVars>>
    /\ UNCHANGED treeVars

\* transpile(...) settles: on success mkdirp and writeFile are started
Transpiled(p) ==
    /\ ~ uncaught
    /\ tasks[p] = "transpiling"
    /\ \/ tasks' = [tasks EXCEPT ![p] = "writing"]
       \/ tasks' = [tasks EXCEPT ![p] = "failed"]
    /\ UNCHANGED <<mHandlers, remaining, walkErrors, ended, fileState, mWrites,
                   errors, mResult, uncaught>>
    /\ UNCHANGED condVars
    /\ UNCHANGED <<cfgVars, stepVars, srcVars, extVars>>
    /\ UNCHANGED treeVars

\* mkdirp(outputDir).then(() => writeFile(outputPath, output)) settles
WriteFile(p) ==
    /\ ~ uncaught
    /\ tasks[p] = "writing"
    /\ \/ /\ tasks' = [tasks EXCEPT ![p] = "done"]
          /\ mWrites' = mWrites \cup
                {[dest |-> outputPath(p[1], p[2]), source |-> p[1], handler |-> p[2]]}
       \/ /\ tasks' = [tasks EXCEPT ![p] = "failed"]
          /\ UNCHANGED mWrites
    /\ UNCHANGED <<mHandlers, remaining, walkErrors, ended, fileState,
                   errors, mResult, uncaught>>
    /\ UNCHANGED condVars
    /\ UNCHANGED <<cfgVars, stepVars, srcVars, extVars>>
    /\ UNCHANGED treeVars

\* the promise of Promise.map(selectedHandlers, ...) settles:
\* .then pushes to processed, .catch pushes to errors
FileSettled(f) ==
    /\ ~ uncaught
    /\ fileState[f] = "processing"
    /\ \/ /\ \A i \in selectedHandlers(f) : tasks[<<f, i>>] = "done"
          /\ fileState' = [fileState EXCEPT ![f] = "processed"]
          /\ UNCHANGED errors
       \/ /\ \E i \in selectedHandlers(f) : tasks[<<f, i>>] = "failed"
          /\ fileState' = [fileState EXCEPT ![f] = "errored"]
          /\ errors' = push(errors, [kind |-> "file", file |-> f, n |-> 0])
    /\ UNCHANGED <<mHandlers, remaining, walkErrors, ended, tasks, mWrites,
                   mResult, uncaught>>
    /\ UNCHANGED condVars
    /\ UNCHANGED <<cfgVars, stepVars, srcVars, extVars>>
    /\ UNCHANGED treeVars

\* Promise.all(processing).then(...) of the 'end' handler
MainSettled ==
    /\ ~ uncaught
    /\ ended
    /\ mResult = "pending"
    /\ \A f \in Files : fileState[f] \in {"processed", "errored"}
    /\ mResult' = IF errors # {} THEN "rejected" ELSE "fulfilled"
    /\ UNCHANGED <<mHandlers, remaining, walkErrors, ended, fileState, tasks,
                   mWrites, errors, uncaught>>
    /\ UNCHANGED condVars
    /\ UNCHANGED <<cfgVars, stepVars, srcVars, extVars>>
    /\ UNCHANGED treeVars

(***************************************************************************)
(* A run over a Configuration: new Configuration(options, config), then    *)
(* getOutputGeneratorsForConfig and generateOutput on the generators.      *)
(***************************************************************************)
Flags == {Undefined, Bool(TRUE), Bool(FALSE), Num(1)}

CondDefs ==
    {RegExpSpec(<<"y">>)} \cup
    {[kind |-> "object", keys |-> k, strict |-> f] :
        k \in {{"test"}, {"test", "x"}, {"test", "__strict__"}, {"test", "x", "__strict__"}},
        f \in Flags}

UseDefs ==
    {[form |-> "string"], [form |-> "function"],
     [form |-> "object", keys |-> {}, strict |-> Undefined, loader |-> "undefined"]} \cup
    {[form |-> "object", keys |-> k, strict |-> f, loader |-> "function"] :
        k \in {{"loader"}, {"loader", "x"}, {"loader", "__strict__"},
               {"loader", "x", "__strict__"}},
        f \in Flags}

\* an object has the key __strict__ exactly when the property has a value
WellFormed(object) == ("__strict__" \in object.keys) <=> (object.strict # Undefined)

HandlerDefs ==
    {[keys |-> k, test |-> t, use |-> <<u>>] :
        k \in {{"test", "use"}, {"test", "use", "x"}},
        t \in {c \in CondDefs : c.kind = "object" => WellFormed(c)},
        u \in {d \in UseDefs : d.form = "object" => WellFormed(d)}}

LoaderChains ==
    UNION {[1..n -> {[form |-> "string"], [form |-> "function"]}] : n \in 1..MaxUse}

\* configurations whose objects have unknown keys and strict flags, one file
InitStrict ==
    /\ cfgDef \in UNION {[1..n -> HandlerDefs] : n \in 1..MaxCfgHandlers}
    /\ cfgFiles = {1}

\* configurations of one handler with a chain of loaders, several files
InitLoaders ==
    /\ \E u \in LoaderChains :
          cfgDef = << [keys |-> {"test", "use"}, test |-> RegExpSpec(<<"y">>),
                       use |-> u] >>
    /\ cfgFiles = 1..NumFiles

InitConfig ==
    /\ CondIdle
    /\ TreeIdle
    /\ MainIdle
    /\ StepIdle
    /\ SrcIdle
    /\ ExtIdle
    /\ (InitStrict \/ InitLoaders)
    /\ CfgStart

\* new Configuration(options, config): the Handlers are built in order, each
\* its Condition and then its UseEntries with their Loaders, until one of the
\* constructors throws
NewConfiguration ==
    /\ cfgState = "new"
    /\ cfgState' = IF ConstructorThrows THEN "threw" ELSE "constructed"
    /\ loaders' = [p \in Steps |->
                      IF Built(p)
                      THEN Loader_new(UseEntry_loaderDef(cfgDef[p[1]].use[p[2]]))
                      ELSE NoLoader]
    /\ UNCHANGED <<cfgDef, cfgFiles, visited, chain, invoked>>
    /\ UNCHANGED <<condVars, treeVars, mainVars, stepVars, srcVars, extVars>>

\* importNamedModule(loaderDef, resolveOpts) settles: the module, or the
\* error of resolve or of require
ImportSettles(p) ==
    /\ loaders[p].promise = "pending"
    /\ \/ loaders' = [loaders EXCEPT ![p] =
                [@ EXCEPT !.promise = "fulfilled", !.callable = loaders[p].imports]]
       \/ loaders' = [loaders EXCEPT ![p] = [@ EXCEPT !.promise = "rejected"]]
    /\ UNCHANGED <<cfgDef, cfgFiles, cfgState, visited, chain, invoked>>
    /\ UNCHANGED <<condVars, treeVars, mainVars, stepVars, srcVars, extVars>>

\* walker.on('file') of visitSourcesInDir, called by
\* getOutputGeneratorsForConfig on the constructed Configuration
VisitSource(f) ==
    /\ cfgState = "constructed"
    /\ f \in cfgFiles \ visited
    /\ visited' = visited \cup {f}
    /\ UNCHANGED <<cfgDef, cfgFiles, cfgState, loaders, chain, invoked>>
    /\ UNCHANGED <<condVars, treeVars, mainVars, stepVars, srcVars, extVars>>

\* generateOutput() of the generator of handler h for file f: the first call
\* of the memoized getTransformation runs Handler.transform
StartTransform(f, h) ==
    /\ f \in visited
    /\ chain[<<f, h>>].st = "none"
    /\ chain' = [chain EXCEPT ![<<f, h>>] =
                    [@ EXCEPT !.st = IF Len(cfgDef[h].use) = 0
                                     THEN "fulfilled" ELSE "running"]]
    /\ UNCHANGED <<cfgDef, cfgFiles, cfgState, loaders, visited, invoked>>
    /\ UNCHANGED <<condVars, treeVars, mainVars, stepVars, srcVars, extVars>>

\* UseEntry.transform(input, handlerContext): this._loader.asPromised()
UseEntryTransform(f, h) ==
    /\ chain[<<f, h>>].st = "running"
    /\ ~ chain[<<f, h>>].awaiting
    /\ LET k == chain[<<f, h>>].done + 1
       IN  /\ loaders' = [loaders EXCEPT ![<<h, k>>] = Loader_asPromised(@)]
           /\ chain' = [chain EXCEPT ![<<f, h>>] = [@ EXCEPT !.awaiting = TRUE]]
    /\ UNCHANGED <<cfgDef, cfgFiles, cfgState, visited, invoked>>
    /\ UNCHANGED <<condVars, treeVars, mainVars, stepVars, srcVars, extVars>>

\* the callbacks of UseEntry.transform on the settled promise of the Loader:
\* .then((loader) => ...) calls the loader, .catch rethrows the import error
LoaderSettled(f, h) ==
    /\ chain[<<f, h>>].st = "running"
    /\ chain[<<f, h>>].awaiting
    /\ LET k == chain[<<f, h>>].done + 1
           last == Len(cfgDef[h].use)
           l == loaders[<<h, k>>]
       IN  \/ /\ l.promise = "fulfilled"
              /\ invoked' = invoked \cup
                    {[file |-> f, handler |-> h, step |-> k, callable |-> l.callable]}
              /\ \/ chain' = [chain EXCEPT ![<<f, h>>] =
                        [@ EXCEPT !.awaiting = FALSE, !.done = k,
                                  !.st = IF k = last THEN "fulfilled" ELSE "running"]]
                 \/ chain' = [chain EXCEPT ![<<f, h>>] =
                        [@ EXCEPT !.awaiting = FALSE, !.st = "rejected",
                                  !.failedAt = k, !.error = "apply"]]
           \/ /\ l.promise = "rejected"
              /\ chain' = [chain EXCEPT ![<<f, h>>] = ImportFailed(@, k, last)]
              /\ UNCHANGED invoked
    /\ UNCHANGED <<cfgDef, cfgFiles, cfgState, loaders, visited>>
    /\ UNCHANGED <<condVars, treeVars, mainVars, stepVars, srcVars, extVars>>

NextConfig ==
    \/ NewConfiguration
    \/ \E p \in Steps : ImportSettles(p)
    \/ \E f \in cfgFiles : VisitSource(f)
    \/ \E f \in cfgFiles, h \in DOMAIN cfgDef : StartTransform(f, h)
    \/ \E f \in cfgFiles, h \in DOMAIN cfgDef : UseEntryTransform(f, h)
    \/ \E f \in cfgFiles, h \in DOMAIN cfgDef : LoaderSettled(f, h)

SpecConfig == InitConfig /\ [][NextConfig]_vars

(***************************************************************************)
(* The loader step of transpile.                                           *)
(***************************************************************************)
InitStep ==
    /\ CondIdle
    /\ TreeIdle
    /\ MainIdle
    /\ CfgIdle
    /\ SrcIdle
    /\ ExtIdle
    /\ ldr \in LoaderScripts
    /\ lPhase = "ready"
    /\ lPromise = PendingPromise
    /\ lResult = PendingPromise
    /\ lSignals = <<>>
    /\ lPost = <<>>

\* chain.then(({content, inputValue}) => ...): the promise is made, the
\* loader is called, a value it returns is handed to callback, an error it
\* throws is wrapped and thrown on; otherwise promise is returned
CallLoader ==
    /\ lPhase = "ready"
    /\ lPhase' = "called"
    /\ LET n == Len(ldr.pre)
           p == Callbacks(PendingPromise, ldr.pre, 1)
       IN  CASE ldr.ret = "value" ->
                  /\ lPromise' = callback(p, Undefined, ReturnedContent)
                  /\ lResult' = PendingPromise
                  /\ lSignals' = AskedBy(ldr.pre, 1) \o <<Asked(Undefined, ReturnedContent)>>
             [] ldr.ret = "throw" ->
                  /\ lPromise' = p
                  /\ lResult' = [st |-> "rejected", v |-> ThrownError]
                  /\ lSignals' = AskedBy(ldr.pre, 1) \o
                                    <<[st |-> "rejected", v |-> ThrownError]>>
             [] OTHER ->
                  /\ lPromise' = p
                  /\ lResult' = PendingPromise
                  /\ lSignals' = AskedBy(ldr.pre, 1)
    /\ lPost' = ldr.post
    /\ UNCHANGED ldr
    /\ UNCHANGED <<condVars, treeVars, mainVars, cfgVars, srcVars, extVars>>

\* the loader calls the callback after it has returned
LateCallback ==
    /\ lPhase = "called"
    /\ lPost # <<>>
    /\ LET i == Len(lSignals) + 1
       IN  /\ lPromise' = Callbacks(lPromise, <<Head(lPost)>>, i)
           /\ lSignals' = lSignals \o AskedBy(<<Head(lPost)>>, i)
    /\ lPost' = Tail(lPost)
    /\ UNCHANGED <<ldr, lPhase, lResult>>
    /\ UNCHANGED <<condVars, treeVars, mainVars, cfgVars, srcVars, extVars>>

\* the promise the then-callback returned has settled: the step settles as
\* it did and the chain goes on
StepSettles ==
    /\ lPhase = "called"
    /\ lResult.st = "pending"
    /\ lPromise.st # "pending"
    /\ lResult' = lPromise
    /\ UNCHANGED <<ldr, lPhase, lPromise, lSignals, lPost>>
    /\ UNCHANGED <<condVars, treeVars, mainVars, cfgVars, srcVars, extVars>>

NextStep == CallLoader \/ LateCallback \/ StepSettles

SpecStep == InitStep /\ [][NextStep]_vars

(***************************************************************************)
(* SourceFile: the lazy accessors.  A promise is named by its position in  *)
(* sfMade and is [st, io, on]: io is "readFile" or "stat" for the promise   *)
(* of an I/O call with its then-callback, and else on is the promise it    *)
(* was chained on.  ran tells that its then-callback has run, which        *)
(* assigns the field of the accessor; err is the error it rejected with, 0 *)
(* for none; after is the set of promises that had rejected when it was    *)
(* made.                                                                   *)
(* sfPromise maps an accessor to its _promiseFor... field, 0 for null.     *)
(***************************************************************************)
MaxAccessorCalls == 3

Accessors == {"content", "contentString", "hash", "size"}

\* this._promiseFor... === null
IsNullAlways(p) == TRUE
IsNullOrRejected(p) == p = 0 \/ (p \in DOMAIN sfMade /\ sfMade[p].st = "rejected")
IsNull(p) == p = 0

SourceFile_state == [promise |-> sfPromise, made |-> sfMade, reads |-> sfReads, stats |-> sfStats]

\* promise.then(...) or Promise.resolve(io).then(...), stored in the field of accessor a
Chained(S, a, io, on) ==
    [S EXCEPT !.made = Append(@, [st |-> "pending", io |-> io, on |-> on, ran |-> FALSE,
                                  err |-> 0,
                                  after |-> {q \in DOMAIN S.made :
                                                S.made[q].st = "rejected"}]),
              !.promise[a] = Len(S.made) + 1]

getContent(S) ==
    IF IsNull(S.promise["content"])
    THEN Chained([S EXCEPT !.reads = @ + 1], "content", "readFile", 0)
    ELSE S

getContentString(S) ==
    IF IsNull(S.promise["contentString"])
    THEN LET T == getContent(S) IN Chained(T, "contentString", "none", T.promise["content"])
    ELSE S

getHash(S) ==
    IF IsNull(S.promise["hash"])
    THEN LET T == getContentString(S) IN Chained(T, "hash", "none", T.promise["contentString"])
    ELSE S

getSize(S) ==
    IF IsNull(S.promise["size"])
    THEN Chained([S EXCEPT !.stats = @ + 1], "size", "stat", 0)
    ELSE S

\* promise.then(onFulfilled) once promise has settled: the callback runs and
\* assigns the field on fulfilment, a rejection is handed on with its error
ThenSettled(q, on) ==
    [q EXCEPT !.st = on.st, !.err = on.err, !.ran = (on.st = "fulfilled")]

\* this.content, this.contentString, this.hash: null until the then-callback
\* of the accessor's promise has assigned it
SourceFile_isNull(a) == sfPromise[a] = 0 \/ ~ sfMade[sfPromise[a]].ran

InitSource ==
    /\ CondIdle
    /\ TreeIdle
    /\ MainIdle
    /\ CfgIdle
    /\ StepIdle
    /\ ExtIdle
    /\ sfPromise = [a \in Accessors |-> 0]
    /\ sfReads = 0
    /\ sfStats = 0
    /\ sfMade = <<>>
    /\ sfReturned = [a \in Accessors |-> {}]
    /\ sfCalls = 0

\* a caller calls accessor a, which leaves the SourceFile as T, and gets
\* the promise in the field of a
Called(a, T) ==
    /\ sfCalls < MaxAccessorCalls
    /\ sfCalls' = sfCalls + 1
    /\ sfPromise' = T.promise
    /\ sfMade' = T.made
    /\ sfReads' = T.reads
    /\ sfStats' = T.stats
    /\ sfReturned' = [sfReturned EXCEPT ![a] = @ \cup {T.promise[a]}]
    /\ UNCHANGED <<condVars, treeVars, mainVars, cfgVars, stepVars, extVars>>

GetContent == Called("content", getContent(SourceFile_state))

GetContentString == Called("contentString", getContentString(SourceFile_state))

GetHash == Called("hash", getHash(SourceFile_state))

GetSize == Called("size", getSize(SourceFile_state))

\* readFile or stat completes, well or not, and the then-callback on it runs
IoSettles(p, ok) ==
    /\ p \in 1..Len(sfMade)
    /\ sfMade[p].st = "pending"
    /\ sfMade[p].io \in {"readFile", "stat"}
    /\ sfMade' = [sfMade EXCEPT ![p] = IF ok THEN [@ EXCEPT !.st = "fulfilled", !.ran = TRUE]
                                        ELSE [@ EXCEPT !.st = "rejected", !.err = p]]
    /\ UNCHANGED <<sfPromise, sfReads, sfStats, sfReturned, sfCalls>>
    /\ UNCHANGED <<condVars, treeVars, mainVars, cfgVars, stepVars, extVars>>

\* the promise p was chained on has settled: its then-callback runs, or the
\* rejection is handed on
ThenRuns(p) ==
    /\ p \in 1..Len(sfMade)
    /\ sfMade[p].st = "pending"
    /\ sfMade[p].io = "none"
    /\ sfMade[sfMade[p].on].st # "pending"
    /\ sfMade' = [sfMade EXCEPT ![p] = ThenSettled(@, sfMade[sfMade[p].on])]
    /\ UNCHANGED <<sfPromise, sfReads, sfStats, sfReturned, sfCalls>>
    /\ UNCHANGED <<condVars, treeVars, mainVars, cfgVars, stepVars, extVars>>

NextSource ==
    \/ GetContent
    \/ GetContentString
    \/ GetHash
    \/ GetSize
    \/ \E p \in 1..Len(sfMade), ok \in BOOLEAN : IoSettles(p, ok)
    \/ \E p \in 1..Len(sfMade) : ThenRuns(p)

SpecSource == InitSource /\ [][NextSource]_vars

(***************************************************************************)
(* cli(): the configuration is loaded and main is called; its promise is   *)
(* dropped.  The process ends when an exception is uncaught or when        *)
(* nothing is left to run.                                                 *)
(***************************************************************************)
Running == Str(<<>>)

InitCli ==
    /\ CfgIdle
    /\ StepIdle
    /\ SrcIdle
    /\ CondIdle
    /\ TreeIdle
    /\ CliOthersIdle
    /\ mHandlers \in UNION {[1..n -> [test : {NoKey, RegExpSpec(<<"b">>)},
                                      output : {NoKey, [kind |-> "function", fn |-> "suffix"]}]] :
                              n \in 1..MaxMainHandlers}
    /\ MainStart
    /\ exitCode = Running

\* node ends the process: with 1 on an uncaught exception, with 0 once the
\* event loop is empty, a rejected promise nobody handles being only logged
\* by bluebird
ProcessExit ==
    /\ exitCode = Running
    /\ \/ uncaught
       \/ /\ mResult \in {"fulfilled", "rejected"}
          /\ \A p \in Pairs : tasks[p] \notin {"transpiling", "writing"}
    /\ exitCode' = IF uncaught THEN Num(1) ELSE Num(0)
    /\ UNCHANGED cliFrame

(***************************************************************************)
(* The handler context.  Objects live in ctxHeap under a reference; a      *)
(* context is a record of property values, its data property a reference.  *)
(* A Condition predicate or destination function is given by the key it    *)
(* writes into context.data, if any, after looking at what is there.       *)
(***************************************************************************)
NumCtxFiles == 3

CtxFiles == 1..NumCtxFiles
CtxWrites == {"none", "a", "b"}

\* this._baseHandlerContext = {data: {}, destDir}: data is the object 1
Handler_baseHandlerContext == [data |-> 1, destDir |-> DestDir, source |-> 0]

\* Object.assign({}, ...sources): the property values are copied, an object
\* among them by reference
Object_assign(base, props, heap) ==
    [heap |-> heap, object |-> [base EXCEPT !.source = props.source]]

InitCtx ==
    /\ CondIdle
    /\ TreeIdle
    /\ MainIdle
    /\ CfgIdle
    /\ StepIdle
    /\ SrcIdle
    /\ CtxOthersIdle
    /\ ctxHeap = <<{}>>
    /\ ctxOf = [f \in CtxFiles |-> <<>>]
    /\ ctxSeen = [f \in CtxFiles |-> <<>>]

\* Handler.getOutputGeneratorsForSource(source): baseHandlerContext and, in
\* _getOutputGeneratorsForSource, handlerContext are built with Object.assign
CtxBuild(f) ==
    /\ ctxOf[f] = <<>>
    /\ LET base == Object_assign(Handler_baseHandlerContext, [source |-> f], ctxHeap)
           ctx == Object_assign(base.object, [source |-> f], base.heap)
       IN  /\ ctxHeap' = ctx.heap
           /\ ctxOf' = [ctxOf EXCEPT ![f] = ctx.object]
    /\ UNCHANGED ctxSeen
    /\ UNCHANGED ctxFrame

\* the Condition predicate or the destination function is called with the
\* handlerContext of the call: it looks at context.data and may write a key
CtxCall(f, w) ==
    /\ ctxOf[f] # <<>>
    /\ ctxSeen[f] = <<>>
    /\ ctxSeen' = [ctxSeen EXCEPT ![f] = [marks |-> ctxHeap[ctxOf[f].data]]]
    /\ ctxHeap' = IF w = "none" THEN ctxHeap
                  ELSE [ctxHeap EXCEPT ![ctxOf[f].data] = @ \cup {[key |-> w, by |-> f]}]
    /\ UNCHANGED ctxOf
    /\ UNCHANGED ctxFrame

NextCtx ==
    \/ \E f \in CtxFiles : CtxBuild(f)
    \/ \E f \in CtxFiles, w \in CtxWrites : CtxCall(f, w)

SpecCtx == InitCtx /\ [][NextCtx]_vars

(***************************************************************************)
(* Configuration.getOutputGeneratorsForConfig: the fan-out over the source *)
(* directories, the files the walker reports and the top-level Handlers.   *)
(* A Handler is given by the number of generators its                      *)
(* getOutputGeneratorsForSource yields for a file: none when it does not   *)
(* match, one, or two when it has a fork that matches as well.             *)
(***************************************************************************)
MaxDirs == 2
MaxFanHandlers == 2

FanFiles == {"a", "b"}
FanHandlerKinds == {"all", "b", "fork"}

\* the generators handler h (of kind k) yields for file f of directory d
Handler_getOutputGeneratorsForSource(d, f, h, k) ==
    LET n == CASE k = "all" -> 1
               [] k = "b" -> IF f = "b" THEN 1 ELSE 0
               [] OTHER -> 2
    IN  [i \in 1..n |-> [dir |-> d, file |-> f, handler |-> h, n |-> i]]

\* _.flatten(array): one level
flattenKeepLast(array) == IF array = <<>> THEN <<>> ELSE array[Len(array)]
RECURSIVE flatten(_)
flatten(array) == IF array = <<>> THEN <<>> ELSE Head(array) \o flatten(Tail(array))

\* Configuration.getOutputGeneratorsForSource(source): visitHandlers and
\* the flattening of its lists
getOutputGeneratorsForSource(d, f) ==
    flatten([h \in DOMAIN fanCfg.handlers |->
                Handler_getOutputGeneratorsForSource(d, f, h, fanCfg.handlers[h])])

InitFan ==
    /\ CondIdle
    /\ TreeIdle
    /\ MainIdle
    /\ CfgIdle
    /\ StepIdle
    /\ SrcIdle
    /\ FanOthersIdle
    /\ \E n \in 1..MaxDirs, m \in 1..MaxFanHandlers :
          fanCfg \in [tree : [1..n -> SUBSET FanFiles], handlers : [1..m -> FanHandlerKinds]]
    /\ fanWalk = [d \in DOMAIN fanCfg.tree |->
                    [todo |-> fanCfg.tree[d], st |-> "walking", results |-> <<>>]]
    /\ fanEvals = [t \in (DOMAIN fanCfg.tree) \X FanFiles \X (DOMAIN fanCfg.handlers) |-> 0]
    /\ fanOut = [st |-> "pending", list |-> <<>>]

\* walker.on('file') of visitSourcesInDir(d): the transformation is applied
\* to the new SourceFile, which calls every Handler, and its promise pushed
FanFile(d, f) ==
    /\ fanWalk[d].st = "walking"
    /\ f \in fanWalk[d].todo
    /\ fanWalk' = [fanWalk EXCEPT ![d].todo = @ \ {f},
                                  ![d].results = Append(@, getOutputGeneratorsForSource(d, f))]
    /\ fanEvals' = [t \in DOMAIN fanEvals |->
                      IF t[1] = d /\ t[2] = f THEN fanEvals[t] + 1 ELSE fanEvals[t]]
    /\ UNCHANGED <<fanCfg, fanOut>>
    /\ UNCHANGED fanFrame

\* walker.on('errors'): the promise of the directory rejects, failed is set
FanErrors(d) ==
    /\ fanWalk[d].st = "walking"
    /\ fanWalk' = [fanWalk EXCEPT ![d].st = "failed"]
    /\ UNCHANGED <<fanCfg, fanEvals, fanOut>>
    /\ UNCHANGED fanFrame

\* walker.on('end'): fulfill(Promise.all(results))
FanEnd(d) ==
    /\ fanWalk[d].st = "walking"
    /\ fanWalk[d].todo = {}
    /\ fanWalk' = [fanWalk EXCEPT ![d].st = "ended"]
    /\ UNCHANGED <<fanCfg, fanEvals, fanOut>>
    /\ UNCHANGED fanFrame

\* Promise.all over the directories settles: visitSources flattens the
\* arrays of the directories, getOutputGeneratorsForConfig the lists of the
\* sources
FanSettles ==
    /\ fanOut.st = "pending"
    /\ \/ /\ \E d \in DOMAIN fanWalk : fanWalk[d].st = "failed"
          /\ fanOut' = [st |-> "rejected", list |-> <<>>]
       \/ /\ \A d \in DOMAIN fanWalk : fanWalk[d].st = "ended"
          /\ fanOut' = [st |-> "fulfilled",
                        list |-> flatten(flatten([d \in DOMAIN fanWalk |-> fanWalk[d].results]))]
    /\ UNCHANGED <<fanCfg, fanWalk, fanEvals>>
    /\ UNCHANGED fanFrame

NextFan ==
    \/ \E d \in DOMAIN fanWalk, f \in FanFiles : FanFile(d, f)
    \/ \E d \in DOMAIN fanWalk : FanErrors(d)
    \/ \E d \in DOMAIN fanWalk : FanEnd(d)
    \/ FanSettles

SpecFan == InitFan /\ [][NextFan]_vars

(***************************************************************************)
(* wrapError(error, fmt) of error-utils and the boundaries of              *)
(* configuration-service.js that call it.  An Error object is              *)
(* [message, cause]; a format is a text in which "M" stands for the        *)
(* placeholder {message}.                                                  *)
(***************************************************************************)
ErrorObject(message, cause) == [t |-> "error", message |-> message, cause |-> cause]

\* String(error.message || error.toString() || error)
originalErrorMessage(error) ==
    CASE error.t = "error" -> IF error.message # <<>> THEN error.message
                              ELSE <<"E">>
      [] error.t = "str" -> error.s
      [] OTHER -> String(error)

\* stringTemplate(String(fmt), context): {message} is filled in
RECURSIVE stringTemplate(_, _)
stringTemplate(text, message) ==
    IF text = <<>> THEN <<>>
    ELSE (IF Head(text) = "M" THEN message ELSE <<Head(text)>>)
            \o stringTemplate(Tail(text), message)

\* formatMessage(fmt, context) of a fmt that is no function
formatMessage(fmt, message) ==
    stringTemplate(IF fmt.t = "error" THEN <<"E", ":">> \o fmt.message ELSE String(fmt),
                   message)

wrapError(error, fmt) ==
    LET message == originalErrorMessage(error)
        generated == IF fmt.t = "error" \/ Truthy(fmt)
                     THEN formatMessage(fmt, message) ELSE <<>>
    IN  ErrorObject(IF generated # <<>> THEN generated ELSE message, error)

\* the wrapError call of a boundary, on the error that reaches it
WrapAt(boundary, error) ==
    CASE boundary = "walk" -> wrapError(Str(<<"w">>), error)
      [] boundary = "import" -> wrapError(error, Str(<<"i", "M">>))
      [] boundary = "importStep" -> wrapError(error, Str(<<"s", "M">>))
      [] boundary = "apply" -> wrapError(error, Str(<<"a", "M">>))
      [] boundary = "chain" -> wrapError(error, Str(<<"c", "M">>))
      [] boundary = "write" -> wrapError(error, Str(<<"f">>))

\* the boundaries an error crosses on its way to the caller, by where it
\* is raised
Boundaries(raisedIn) ==
    CASE raisedIn = "walk" -> <<"walk">>
      [] raisedIn = "resolve" -> <<"import", "importStep", "chain">>
      [] raisedIn = "loader" -> <<"apply", "chain">>
      [] raisedIn = "write" -> <<"write">>
      [] OTHER -> <<>>

\* the error at the end of the cause links
RECURSIVE Originating(_)
Originating(e) ==
    IF e.t = "error" /\ e.cause # Undefined THEN Originating(e.cause) ELSE e

\* what is raised: an Error, or a string that a loader or a module throws;
\* the walker hands over an Error as statsArray.error
Raised(raisedIn) ==
    {ErrorObject(m, Undefined) : m \in Lists({"x", "y"})} \cup
    (IF raisedIn = "walk" THEN {} ELSE {Str(m) : m \in Lists({"x", "y"})})

InitWrap ==
    /\ CondIdle
    /\ TreeIdle
    /\ MainIdle
    /\ CfgIdle
    /\ StepIdle
    /\ SrcIdle
    /\ WrapOthersIdle
    /\ \E r \in {"walk", "resolve", "loader", "write", "read"} :
          \E e \in Raised(r) : wOrigin = [raisedIn |-> r, error |-> e]
    /\ wPath = Boundaries(wOrigin.raisedIn)
    /\ wErr = wOrigin.error

\* the error reaches the next boundary, whose catch wraps and rethrows it
Cross ==
    /\ wPath # <<>>
    /\ wErr' = WrapAt(Head(wPath), wErr)
    /\ wPath' = Tail(wPath)
    /\ UNCHANGED wOrigin
    /\ UNCHANGED wrapFrame

NextWrap == Cross

SpecWrap == InitWrap /\ [][NextWrap]_vars

(***************************************************************************)
(* Configuration.visitSourcesInDir(sourceDir, sourceTransformation): one   *)
(* walk.  vWalk is [tree, todo, failed, errors, ended, stalled]: the files *)
(* of the directory, those the walker has yet to report, the failed flag,  *)
(* the number of 'errors' events, whether 'end' was emitted, and whether   *)
(* the walker waits for a next() that is never called.  A result is        *)
(* [file, st, errorsBefore]: the promise of method(sourceFile) and the     *)
(* number of 'errors' events that came before the file was dispatched.     *)
(***************************************************************************)
NumVisitFiles == 2
MaxVisitErrors == 2

VisitFiles == 1..NumVisitFiles

\* the error the n-th 'errors' event rejects with
WalkError(n) == Str(<<"w", DigitChar(n)>>)

\* if (!failed) of the 'file' and 'end' handlers
NotFailedAlways(w) == TRUE
NotFailed(w) == ~ w.failed

\* Promise.all(results), once it has settled: it rejects with the error of
\* a rejected result, and else fulfils with the values in order
Promise_all(results) ==
    IF \E i \in DOMAIN results : results[i].st = "rejected"
    THEN {[st |-> "rejected", v |-> <<"e", results[i].file>>] :
            i \in {j \in DOMAIN results : results[j].st = "rejected"}}
    ELSE IF \A i \in DOMAIN results : results[i].st = "fulfilled"
    THEN {[st |-> "fulfilled", v |-> [i \in DOMAIN results |-> results[i].file]]}
    ELSE {}

InitVisit ==
    /\ CondIdle
    /\ TreeIdle
    /\ MainIdle
    /\ CfgIdle
    /\ StepIdle
    /\ SrcIdle
    /\ VisitOthersIdle
    /\ \E tree \in SUBSET VisitFiles :
          vWalk = [tree |-> tree, todo |-> tree, failed |-> FALSE, errors |-> 0,
                   ended |-> FALSE, stalled |-> FALSE]
    /\ vResults = <<>>
    /\ vPromise = PendingPromise
    /\ vSettled = <<>>

\* fulfill or reject is called on the promise: a call that changes it is a
\* settlement
VisitSettle(st, v) ==
    /\ vPromise' = Promise_settle(vPromise, st, v)
    /\ vSettled' = IF vPromise' # vPromise THEN Append(vSettled, vPromise') ELSE vSettled

\* walker.on('file'): the transformation is applied to the new SourceFile
\* and its promise pushed, then next(); once failed, nothing is done and
\* next() is not called, which leaves the walker waiting
VisitFile(f) ==
    /\ ~ vWalk.ended
    /\ ~ vWalk.stalled
    /\ f \in vWalk.todo
    /\ IF NotFailed(vWalk)
       THEN /\ vResults' = Append(vResults, [file |-> f, st |-> "pending",
                                             errorsBefore |-> vWalk.errors])
            /\ vWalk' = [vWalk EXCEPT !.todo = @ \ {f}]
       ELSE /\ vWalk' = [vWalk EXCEPT !.todo = @ \ {f}, !.stalled = TRUE]
            /\ UNCHANGED vResults
    /\ UNCHANGED <<vPromise, vSettled>>
    /\ UNCHANGED visitFrame

\* walker.on('errors'): reject(wrapError(...)), failed = true, next()
VisitErrors ==
    /\ ~ vWalk.ended
    /\ ~ vWalk.stalled
    /\ vWalk.errors < MaxVisitErrors
    /\ VisitSettle("rejected", WalkError(vWalk.errors + 1))
    /\ vWalk' = [vWalk EXCEPT !.failed = TRUE, !.errors = @ + 1]
    /\ UNCHANGED vResults
    /\ UNCHANGED visitFrame

\* walker.on('end'): fulfill(Promise.all(results)) unless failed; the
\* promise then follows the one of Promise.all
VisitEnd ==
    /\ ~ vWalk.ended
    /\ ~ vWalk.stalled
    /\ vWalk.todo = {}
    /\ vWalk' = [vWalk EXCEPT !.ended = TRUE]
    /\ IF NotFailed(vWalk)
       THEN vPromise' = Promise_settle(vPromise, "following", Undefined)
       ELSE UNCHANGED vPromise
    /\ UNCHANGED <<vResults, vSettled>>
    /\ UNCHANGED visitFrame

\* the promise of method(sourceFile) for a dispatched file settles
VisitResultSettles(i, ok) ==
    /\ i \in DOMAIN vResults
    /\ vResults[i].st = "pending"
    /\ vResults' = [vResults EXCEPT ![i].st = IF ok THEN "fulfilled" ELSE "rejected"]
    /\ UNCHANGED <<vWalk, vPromise, vSettled>>
    /\ UNCHANGED visitFrame

\* Promise.all(results) settles and the promise that follows it with it
VisitAllSettles ==
    /\ vPromise.st = "following"
    /\ \E q \in Promise_all(vResults) :
          /\ vPromise' = q
          /\ vSettled' = Append(vSettled, q)
    /\ UNCHANGED <<vWalk, vResults>>
    /\ UNCHANGED visitFrame

NextVisit ==
    \/ \E f \in VisitFiles : VisitFile(f)
    \/ VisitErrors
    \/ VisitEnd
    \/ \E i \in DOMAIN vResults, ok \in BOOLEAN : VisitResultSettles(i, ok)
    \/ VisitAllSettles

SpecVisit == InitVisit /\ [][NextVisit]_vars

(***************************************************************************)
(* resolveRequestAsync(rootDir, options, context, request, callback) of    *)
(* src/main.js.  A request is the text loader!...!resource, each name one  *)
(* character; transpile reads the resource and applies the loaders, the    *)
(* last one of the request first.  rqTranspile is [st, v, todo]: the       *)
(* promise of resolveRequest and the loaders transpile has yet to apply,   *)
(* with the resource itself as the first thing to do.                      *)
(***************************************************************************)
MaxRequestLoaders == 2

LoaderNames == {"x", "y"}
ResourceNames == {"a", "b"}

RECURSIVE join(_)
join(names) ==
    IF Len(names) = 1 THEN Head(names) ELSE Head(names) \o <<"!">> \o join(Tail(names))

Requests ==
    {join(l \o <<<<r>>>>) :
        l \in UNION {[1..n -> {<<c>> : c \in LoaderNames}] : n \in 0..MaxRequestLoaders},
        r \in ResourceNames}

\* request.split('!')
RECURSIVE split(_)
split(request) ==
    IF \A i \in DOMAIN request : request[i] # "!" THEN <<request>>
    ELSE LET i == CHOOSE j \in DOMAIN request :
                      request[j] = "!" /\ \A k \in 1..(j - 1) : request[k] # "!"
         IN  <<SubSeq(request, 1, i - 1)>> \o split(SubSeq(request, i + 1, Len(request)))

reverse(array) == [i \in DOMAIN array |-> array[Len(array) + 1 - i]]

\* resolveRequest: the last name is the resource, the others, reversed,
\* are the loaders handed to transpile
resolveRequest(request) ==
    LET requestSpecs == split(request)
    IN  [resourceSpec |-> requestSpecs[Len(requestSpecs)],
         loaderSpecs |-> reverse(SubSeq(requestSpecs, 1, Len(requestSpecs) - 1))]

InitResolve ==
    /\ CondIdle
    /\ TreeIdle
    /\ MainIdle
    /\ CfgIdle
    /\ StepIdle
    /\ SrcIdle
    /\ ResolveOthersIdle
    /\ rqRequest \in Requests
    /\ rqTranspile = [st |-> "pending", v |-> Undefined,
                      todo |-> <<resolveRequest(rqRequest).resourceSpec>>
                                  \o resolveRequest(rqRequest).loaderSpecs]
    /\ rqCatch = PendingPromise
    /\ rqThen = PendingPromise
    /\ rqCalls = <<>>

\* transpile goes on: the resource is read, or the next loader is resolved
\* and applied; either fails or yields the new content, and the promise
\* fulfils with the content after the last loader
TranspileStep(ok) ==
    /\ rqTranspile.st = "pending"
    /\ LET name == Head(rqTranspile.todo)
           rest == Tail(rqTranspile.todo)
           content == IF rqTranspile.v = Undefined THEN name ELSE rqTranspile.v.s \o name
       IN  rqTranspile' =
              IF ~ ok THEN [st |-> "rejected", v |-> Str(<<"e">> \o name), todo |-> rest]
              ELSE [st |-> IF rest = <<>> THEN "fulfilled" ELSE "pending",
                    v |-> Str(content), todo |-> rest]
    /\ UNCHANGED <<rqRequest, rqCatch, rqThen, rqCalls>>
    /\ UNCHANGED resolveFrame

\* .catch((error) => { callback(error); }): on a rejection the handler runs
\* and returns nothing, which fulfils the promise of .catch with undefined;
\* a fulfilment is handed on
CatchRuns ==
    /\ rqTranspile.st \in {"fulfilled", "rejected"}
    /\ rqCatch.st = "pending"
    /\ IF rqTranspile.st = "rejected"
       THEN /\ rqCalls' = Append(rqCalls, <<rqTranspile.v>>)
            /\ rqCatch' = Promise_settle(rqCatch, "fulfilled", Undefined)
       ELSE /\ rqCatch' = Promise_settle(rqCatch, "fulfilled", rqTranspile.v)
            /\ UNCHANGED rqCalls
    /\ UNCHANGED <<rqRequest, rqTranspile, rqThen>>
    /\ UNCHANGED resolveFrame

\* .then((output) => { callback(null, output); }) on the promise of .catch
ThenCallback ==
    /\ rqCatch.st = "fulfilled"
    /\ rqThen.st = "pending"
    /\ rqCalls' = Append(rqCalls, <<[t |-> "null"], rqCatch.v>>)
    /\ rqThen' = Promise_settle(rqThen, "fulfilled", Undefined)
    /\ UNCHANGED <<rqRequest, rqTranspile, rqCatch>>
    /\ UNCHANGED resolveFrame

NextResolve ==
    \/ \E ok \in BOOLEAN : TranspileStep(ok)
    \/ CatchRuns
    \/ ThenCallback

SpecResolve == InitResolve /\ [][NextResolve]_vars

NextMain ==
    \/ \E f \in Files : WalkerFile(f)
    \/ WalkerErrors
    \/ WalkerEnd
    \/ \E p \in Pairs : Transpiled(p)
    \/ \E p \in Pairs : WriteFile(p)
    \/ \E f \in Files : FileSettled(f)
    \/ MainSettled

SpecMain == InitMain /\ [][NextMain]_vars

SpecMainRun == InitMainRun /\ [][NextMain]_vars

NextCli ==
    \/ NextMain
    \/ ProcessExit

SpecCli == InitCli /\ [][NextCli]_vars

NextCond == Evaluate

SpecCond == InitCond /\ [][NextCond]_vars

Next ==
    \/ GetOutputGeneratorsForSource
    \/ \E h \in Nodes : Satisfied(h)
    \/ \E h \in Nodes : GenerateOutput(h)
    \/ ReadDone
    \/ \E h \in Nodes : Transform(h)
    \/ \E h \in Nodes : InvokeStep(h)
    \/ \E h \in Nodes : Write(h)
    \/ \E h \in Nodes : RejectOutput(h)

Spec == Init /\ [][Next]_vars

SpecChain == InitChain /\ [][Next]_vars

SpecDest == InitDest /\ [][Next]_vars

\* the event loop runs every callback that is ready to run
SpecChainFair == InitChain /\ [][Next]_vars /\ WF_vars(Next)

(***************************************************************************)
(* Properties.                                                             *)
(***************************************************************************)
Evaluated == cResult \notin {"pending", "idle"}

\* C1: a Handler whose Condition is false yields no generators, and none of
\* its forks, at any depth, has its Condition, its destination function or
\* its chain evaluated, whatever the fork's own Condition is; for the
\* top-level Handler the list is empty.
C1_ForkGating ==
    \A h \in Nodes :
        Handler_satisfied(h) = "false" =>
            /\ \A d \in Descendants(h) :
                  /\ d \notin condEvaluated
                  /\ d \notin destEvaluated
                  /\ match[d] = "idle"
                  /\ trans[d].st = "unset"
                  /\ stepLog[d] = <<>>
            /\ Generators \cap ({h} \cup Descendants(h)) = {}
            /\ (h = Root /\ match[h] \notin {"idle", "called"}) =>
                  (Outputs = "fulfilled" /\ Generators = {})

C1_Witness ==
    /\ Nodes # {}
    /\ match[Root] = "empty"
    /\ \E d \in Descendants(Root) : Handler_satisfied(d) = "true"
    /\ \E d \in Descendants(Root) : Descendants(d) # {}

\* C2: whatever the order of the generateOutput calls on the generator of a
\* Handler and on those of its forks, each step of the Handler's chain is
\* invoked at most once, and exactly once when one of these generators has
\* written its file.
C2_ParentChainOnce ==
    \A h \in Nodes : \A k \in 1..Len(handlers[h].use) :
        /\ Invocations(h, k) <= 1
        /\ (\E g \in {h} \cup Descendants(h) : written[g] > 0) => Invocations(h, k) = 1

C2_Witness ==
    /\ Nodes # {}
    /\ Len(handlers[Root].use) >= 2
    /\ Cardinality(Children(Root)) >= 2
    /\ \A h \in Nodes : written[h] > 0

\* C6: the steps of a chain are invoked in list order, one at a time, each
\* on the output of the step before it, and the result of the chain is
\* sn(...s2(s1(x))...).
RECURSIVE ChainResult(_, _)
ChainResult(use, x) ==
    IF use = <<>> THEN x
    ELSE ChainResult(Tail(use), UseEntry_output(Head(use), x))

C6_ChainOrdering ==
    \A h \in Nodes :
        LET use == handlers[h].use
        IN  /\ \A i \in DOMAIN stepLog[h] :
                  /\ stepLog[h][i].k = i
                  /\ stepLog[h][i].input =
                        ChainResult(SubSeq(use, 1, i - 1), trans[h].initial)
            /\ Len(stepLog[h]) \in {trans[h].done, trans[h].done + 1}
            /\ trans[h].inflight => Len(stepLog[h]) = trans[h].done + 1
            /\ trans[h].st = "fulfilled" =>
                  /\ Len(stepLog[h]) = Len(use)
                  /\ trans[h].cur = ChainResult(use, trans[h].initial)

C6_Witness ==
    /\ Nodes # {}
    /\ trans[Root].st = "fulfilled"
    /\ Len(handlers[Root].use) = 3
    /\ handlers[Root].use[1].fn = "append"
    /\ handlers[Root].use[2].fn = "length"
    /\ handlers[Root].use[3].fn = "append"

\* C7: when step k of a chain fails, the chain fails and no step after k is
\* invoked.
C7_ChainAbort ==
    \A h \in Nodes :
        trans[h].failedAt # 0 =>
            /\ trans[h].st = "rejected"
            /\ \A j \in DOMAIN handlers[h].use :
                  j > trans[h].failedAt => Invocations(h, j) = 0

C7_Witness ==
    /\ Nodes # {}
    /\ trans[Root].failedAt = 2
    /\ trans[Root].failedBy = "throw"
    /\ Len(handlers[Root].use) = 3
    /\ waiting[Root] = 0
    /\ failed[Root] > 0

\* C8: satisfiedBy(path, context) is true exactly when the test is satisfied
\* by the path, every include sub-condition is satisfied by the same path and
\* context, and no exclude sub-condition is.
C8_SatisfiedBy ==
    Evaluated =>
        LET incs == Condition_include(cSpec)
            excs == Condition_exclude(cSpec)
        IN  (cResult = "true") <=>
                /\ Condition_test(cSpec, cArgs) = "true"
                /\ \A i \in DOMAIN incs : satisfiedBy(incs[i], cArgs) = "true"
                /\ \A i \in DOMAIN excs : satisfiedBy(excs[i], cArgs) # "true"

\* C9: an empty include list does not fail a Condition and an empty exclude
\* list does not exclude; a Condition {test: T, include: [], exclude: []} has
\* the outcome of T on every path.
C9_DontCareLists ==
    (Evaluated /\ cSpec.kind = "object" /\ ~ IsError(cResult)) =>
        LET incs == Condition_include(cSpec)
            excs == Condition_exclude(cSpec)
            test == Condition_test(cSpec, cArgs)
            include == [i \in DOMAIN incs |->
                            satisfiedBy(incs[i], SubConditionArgs(cArgs))]
            exclude == [i \in DOMAIN excs |->
                            satisfiedBy(excs[i], SubConditionArgs(cArgs))]
        IN  /\ cSpec.include = ArraySpec(<<>>) =>
                  (cResult = "true" <=>
                      (test = "true" /\ \A i \in DOMAIN exclude : exclude[i] = "false"))
            /\ cSpec.exclude = ArraySpec(<<>>) =>
                  (cResult = "true" <=>
                      (test = "true" /\ \A i \in DOMAIN include : include[i] = "true"))
            /\ (/\ cSpec.include = ArraySpec(<<>>)
                /\ cSpec.exclude = ArraySpec(<<>>)
                /\ cSpec.test # NoKey) =>
                  cResult = satisfiedBy(cSpec.test, cArgs)

C9_Witness ==
    /\ cResult = "true"
    /\ cSpec.kind = "object"
    /\ cSpec.include = ArraySpec(<<>>)
    /\ cSpec.exclude = ArraySpec(<<>>)
    /\ cSpec.test = RegExpSpec(<<"y">>)

\* C10: a Condition built from a predicate function is satisfied exactly when
\* the function returns a truthy value or a promise of one, and fails with
\* the function's error when it throws or its promise rejects.
C10_FunctionCondition ==
    (/\ Evaluated
     /\ cSpec.kind = "object"
     /\ cSpec.test.kind = "function"
     /\ Condition_include(cSpec) = <<>>
     /\ Condition_exclude(cSpec) = <<>>) =>
        cResult = (CASE cSpec.test.ret \in {"truthy", "promiseTruthy"} -> "true"
                     [] cSpec.test.ret \in {"falsy", "promiseFalsy"} -> "false"
                     [] OTHER -> "FunctionError")

\* C11: a Condition built from a non-empty array is satisfied by a path
\* exactly when every member of the array is satisfied by that path.
C11_ArrayCondition ==
    (Evaluated /\ cSpec.kind = "array" /\ cSpec.items # <<>>) =>
        (cResult = "true" <=>
            \A i \in DOMAIN cSpec.items : satisfiedBy(cSpec.items[i], cArgs) = "true")

(***************************************************************************)
(* Properties of a run of main.                                            *)
(***************************************************************************)
\* the outputs of the run: one per walked file and selected handler
RunOutputs == {p \in Pairs : p[2] \in DOMAIN mHandlers /\ Selects(p[1], p[2])}

Collision ==
    \E p, q \in RunOutputs : p # q /\ outputPath(p[1], p[2]) = outputPath(q[1], q[2])

\* C3: when two outputs of a run resolve to the same destination, the run
\* fails and writes no output file at all.
C3_CollisionWritesNothing ==
    (mResult # "idle" /\ Collision) => (mWrites = {} /\ mResult # "fulfilled")

\* C4: over a run, every destination is written by at most one (source file,
\* handler) pair.
C4_OneWriterPerDestination ==
    \A w1, w2 \in mWrites : w1.dest = w2.dest => w1 = w2

\* C5: no output file is written before the walk has ended and every file
\* has been matched against every handler.
C5_WriteAfterWalk ==
    mWrites # {} => (ended /\ remaining = {})

(***************************************************************************)
(* Properties of the construction of a Configuration and of its Loaders.   *)
(***************************************************************************)
\* the object has a key outside the recognised set and its strict flag is
\* absent or truthy
StrictWithUnknownKey(object) ==
    /\ "x" \in object.keys
    /\ object.strict \in {Undefined, Bool(TRUE), Num(1)}

RejectedObject ==
    \E h \in DOMAIN cfgDef :
        \/ /\ cfgDef[h].test.kind = "object"
           /\ StrictWithUnknownKey(cfgDef[h].test)
        \/ \E k \in DOMAIN cfgDef[h].use :
              /\ cfgDef[h].use[k].form = "object"
              /\ StrictWithUnknownKey(cfgDef[h].use[k])

NoLoaderDefinition ==
    \E h \in DOMAIN cfgDef : \E k \in DOMAIN cfgDef[h].use :
        cfgDef[h].use[k].form = "object" /\ cfgDef[h].use[k].loader = "undefined"

\* C12: a Condition or UseEntry object with an unrecognised key and a strict
\* flag that is absent or truthy makes new Configuration throw, before any
\* source file is walked or processed; with the flag false the object is
\* accepted.
C12_StrictConfiguration ==
    cfgState \in {"constructed", "threw"} =>
        /\ RejectedObject => cfgState = "threw"
        /\ cfgState = "threw" =>
              /\ visited = {}
              /\ invoked = {}
              /\ \A c \in DOMAIN chain : chain[c] = NoChain
        /\ (~ RejectedObject /\ ~ NoLoaderDefinition) => cfgState = "constructed"

C12_Witness ==
    /\ cfgState = "threw"
    /\ cfgDef[1].test.kind = "object"
    /\ "x" \in cfgDef[1].test.keys
    /\ cfgDef[1].test.strict = Bool(FALSE)
    /\ cfgDef[1].use[1].form = "object"
    /\ "x" \in cfgDef[1].use[1].keys
    /\ cfgDef[1].use[1].strict = Undefined

\* C15: the callable of a step is imported at most once in a run, and every
\* invocation of the step, for whatever file, calls the same callable.
C15_ResolutionMemoized ==
    /\ \A p \in DOMAIN loaders : loaders[p].imports <= 1
    /\ \A i, j \in invoked :
          (i.handler = j.handler /\ i.step = j.step) => i.callable = j.callable

C15_Witness ==
    \E i, j \in invoked :
        /\ i.file # j.file
        /\ i.handler = j.handler
        /\ i.step = j.step
        /\ cfgDef[i.handler].use[i.step].form = "string"

\* C16: when the import of a step's loader has failed, every chain that
\* reaches the step fails at it with the import error, the step is never
\* invoked, and the import is not attempted again.
C16_ResolutionFailurePermanent ==
    \A p \in DOMAIN loaders :
        loaders[p].promise = "rejected" =>
            /\ loaders[p].imports = 1
            /\ ~ \E i \in invoked : i.handler = p[1] /\ i.step = p[2]
            /\ \A f \in cfgFiles :
                  LET c == chain[<<f, p[1]>>]
                  IN  /\ c.done < p[2]
                      /\ c.st # "fulfilled"
                      /\ (c.st = "rejected" /\ c.done = p[2] - 1) =>
                            (c.failedAt = p[2] /\ c.error = "import")

C16_Witness ==
    /\ Cardinality(cfgFiles) >= 2
    /\ \E p \in DOMAIN loaders :
          /\ p[2] = 2
          /\ loaders[p].promise = "rejected"
          /\ \A f \in cfgFiles : chain[<<f, p[1]>>].error = "import"

(***************************************************************************)
(* Properties of the destinations and of the failures of matching.         *)
(***************************************************************************)
Settled(h) == match[h] \notin {"idle", "called"}

\* C13: a matched Handler whose destination function gives a falsy value
\* contributes no OutputGenerator and writes no file, while its forks are
\* evaluated and their chains receive the Handler's transformed output.
C13_FalsyDestination ==
    \A h \in Nodes :
        (/\ Settled(h)
         /\ Handler_satisfied(h) = "true"
         /\ handlers[h].dest \in {"empty", "undefined"}) =>
            /\ h \notin Generators
            /\ written[h] = 0
            /\ Children(h) \subseteq condEvaluated
            /\ \A f \in Children(h) :
                  trans[f].started =>
                      (trans[h].st = "fulfilled" /\ trans[f].initial = trans[h].cur)

\* C14: the destination of every OutputGenerator is an absolute path, for the
\* default destination and for the result of a destination function.
C14_AbsoluteDestinations ==
    \A h \in Generators :
        (genDest[h].t = "str" /\ genDest[h].s # <<>>) => Head(genDest[h].s) = "/"

\* C20: when the predicate of a Condition or a destination function throws or
\* rejects, in the Handler or in a fork, the promise of
\* getOutputGeneratorsForSource rejects with that failure.
C20_RejectsWithFailure ==
    \A h \in Nodes :
        Settled(h) =>
            /\ handlers[h].cond.test \in FailingTests =>
                  (Outputs = "rejected" /\ matchError[h] = "FunctionError")
            /\ (Handler_satisfied(h) = "true" /\ handlers[h].dest \in {"throw", "reject"}) =>
                  (Outputs = "rejected" /\ matchError[h] = "DestinationError")

(***************************************************************************)
(* Properties of the completion of a step.                                 *)
(***************************************************************************)
\* C17: a step whose loader returns no value and completes through the
\* callback lets the chain proceed, and the result of the chain eventually
\* settles.
C17_AsyncCompletion ==
    [](trans[Root].inflight => <>(trans[Root].st \in {"fulfilled", "rejected"}))

C19_LazyAccessors ==
    sfReturned # <<>> =>
        /\ sfReads <= 1
        /\ sfStats <= 1
        /\ \A a \in Accessors : Cardinality(sfReturned[a]) <= 1

\* three calls or more, all of them getHash or getContent and so one of the
\* two called again, all made while the read is in flight
C19_Witness ==
    /\ sfReturned # <<>>
    /\ sfCalls >= 3
    /\ sfReturned["contentString"] = {}
    /\ sfReturned["size"] = {}
    /\ sfReads = 1
    /\ sfReturned["hash"] # {}
    /\ sfReturned["content"] # {}
    /\ sfMade[sfPromise["content"]].st = "pending"
    /\ sfMade[sfPromise["hash"]].st = "pending"

\* C21: a failure of the processing of one file (its read, the resolution or
\* the run of a step, its write) does not keep the outputs of the other files
\* from being produced and written, and the run rejects after the walk with
\* one error that holds an entry for every failed file.
C21_PerFileIsolation ==
    mResult = "rejected" =>
        \A f \in Files :
            IF \E i \in selectedHandlers(f) : tasks[<<f, i>>] = "failed"
            THEN \E e \in errors : e.kind = "file" /\ e.file = f
            ELSE \A i \in selectedHandlers(f) :
                    /\ tasks[<<f, i>>] = "done"
                    /\ \E w \in mWrites : w.source = f /\ w.handler = i

\* the run has rejected with two entries: one file failed in the transpile or
\* the write of a handler, after the walk had reported an error, and the
\* other file has its outputs written
C21_Witness ==
    /\ mResult = "rejected"
    /\ Cardinality(errors) = 2
    /\ \E f, g \in Files :
          /\ fileState[f] = "errored"
          /\ fileState[g] = "processed"
          /\ \E w \in mWrites : w.source = g

\* the generators of every source directory, file in it and top-level Handler
FanExpected ==
    UNION {{g \in [dir : {d}, file : {f}, handler : {h}, n : 1..2] :
               g.n <= Len(Handler_getOutputGeneratorsForSource(d, f, h, fanCfg.handlers[h]))} :
           d \in DOMAIN fanCfg.tree, f \in FanFiles, h \in DOMAIN fanCfg.handlers}

\* C22: the list of getOutputGeneratorsForConfig holds, once each, the
\* generators of every top-level Handler for every file the walker reports in
\* every source directory, and every (file, handler) pair is evaluated once.
C22_FanOutComplete ==
    (fanOut # <<>> /\ fanOut.st = "fulfilled") =>
        /\ {fanOut.list[i] : i \in DOMAIN fanOut.list} =
              {g \in FanExpected : g.file \in fanCfg.tree[g.dir]}
        /\ \A i, j \in DOMAIN fanOut.list : fanOut.list[i] = fanOut.list[j] => i = j
        /\ \A t \in DOMAIN fanEvals :
              fanEvals[t] = IF t[2] \in fanCfg.tree[t[1]] THEN 1 ELSE 0

\* two directories of two files each and two handlers, one with a fork: the
\* list has the twelve generators
C22_Witness ==
    /\ fanOut # <<>>
    /\ fanOut.st = "fulfilled"
    /\ Len(fanCfg.tree) >= 2
    /\ \A d \in DOMAIN fanCfg.tree : fanCfg.tree[d] = FanFiles
    /\ Len(fanCfg.handlers) >= 2
    /\ \E h \in DOMAIN fanCfg.handlers : fanCfg.handlers[h] = "fork"
    /\ Len(fanOut.list) >= 6

\* C23: whatever the sequence of generateOutput calls on one OutputGenerator,
\* the write of its destination file is executed at most once.
C23_WriteAtMostOnce ==
    \A h \in DOMAIN written : written[h] <= 1

\* C24: an error wrapped at a boundary (directory walk, loader import, step
\* application, chain, write) is the cause of its wrapper, so the cause links
\* of the surfaced error lead to the error first raised.
C24_CausePreserved ==
    wOrigin # <<>> => Originating(wErr) = wOrigin.error

\* the file whose processOneModule threw
Thrown == {f \in Files : f \notin remaining /\ fileState[f] = "unseen"}

\* C25: the error of a run that fails on a destination collision names every
\* colliding destination and, for each, the handler and source file of every
\* output that targets it.
C25_CollisionReport ==
    (mResult # "idle" /\ uncaught) =>
        \A f \in Thrown : \A i, j \in selectedHandlers(f) :
            (i # j /\ outputPath(f, i) = outputPath(f, j)) =>
                /\ outputPath(f, i) \in byOutputError(f).destinations
                /\ {<<f, i>>, <<f, j>>} \subseteq byOutputError(f).origins

\* C26: the process ends with exit code 0 when the run succeeds and with
\* another exit code whenever the run fails.
C26_ExitCode ==
    (exitCode # <<>> /\ exitCode # Running) =>
        (exitCode = Num(0) <=> mResult = "fulfilled")

\* the output of the chain of h for the source
RECURSIVE ChainOutput(_)
ChainOutput(h) ==
    ChainResult(handlers[h].use,
                IF handlers[h].parent = 0
                THEN [content |-> SourceText, value |-> Undefined]
                ELSE ChainOutput(handlers[h].parent))

\* C27: the first step of a fork's chain gets the {content, value} output of
\* the chain of its parent (of its immediate parent fork when nested), and
\* never the raw source content unless the parent's chain is empty.
C27_ForkInput ==
    \A h \in Nodes :
        handlers[h].parent # 0 =>
            \A i \in DOMAIN stepLog[h] :
                stepLog[h][i].k = 1 =>
                    /\ stepLog[h][i].input = ChainOutput(handlers[h].parent)
                    /\ handlers[handlers[h].parent].use # <<>> =>
                          stepLog[h][i].input.content # SourceText

\* the first step of a fork of a fork has run, below a top-level Handler
\* whose chain is not empty
C27_Witness ==
    \E h \in Nodes :
        /\ handlers[h].parent # 0
        /\ handlers[handlers[h].parent].parent # 0
        /\ handlers[Root].use # <<>>
        /\ stepLog[h] # <<>>

\* generateOutput has been called on the generator of h
GenerateOutputCalled(h) == waiting[h] + written[h] + failed[h] > 0

\* C28: the matching phase runs no step, reads no source content and writes
\* no file, and the chain of a Handler runs only once generateOutput has been
\* called on its generator or on the generator of one of its forks.
C28_DeferredWork ==
    /\ calls = 0 =>
          /\ read \in {"unread", "idle"}
          /\ \A h \in Nodes : trans[h].st = "unset" /\ stepLog[h] = <<>> /\ written[h] = 0
    /\ \A h \in Nodes :
          (trans[h].st # "unset" \/ stepLog[h] # <<>>) =>
              \E g \in {h} \cup Descendants(h) : GenerateOutputCalled(g)

\* after the matching phase generateOutput was called on a fork only: the
\* chain of the top-level Handler has run, the one of another generator not
C28_Witness ==
    /\ Nodes # {}
    /\ Outputs = "fulfilled"
    /\ ~ GenerateOutputCalled(Root)
    /\ trans[Root].st = "fulfilled"
    /\ stepLog[Root] # <<>>
    /\ \E h, g \in Generators :
          /\ h # Root /\ g # Root /\ g # h
          /\ GenerateOutputCalled(h)
          /\ trans[g].st = "unset"

\* C29: the generator of a matched Handler without a destination function
\* has the source's relative path joined under the output directory as its
\* destination; with a destination function, the function is called with
\* this default path and its result is the destination.
C29_DefaultDestination ==
    \A h \in Nodes :
        match[h] = "matched" =>
            /\ handlers[h].dest = "default" =>
                  genDest[h] = Str(DestDir \o <<"/">> \o SourceRelativePath)
            /\ handlers[h].dest = "suffix" =>
                  genDest[h] = Str(DestDir \o <<"/">> \o SourceRelativePath \o <<".", "j">>)

\* a top-level Handler without a destination function and a fork with one
\* have both matched
C29_Witness ==
    /\ Nodes # {}
    /\ \E h, g \in Generators :
          /\ handlers[h].parent = 0
          /\ handlers[h].dest = "default"
          /\ handlers[g].dest = "suffix"
          /\ destEvaluated = {h, g}

\* C30: what a Condition predicate or destination function writes into the
\* data bag of the context while one source file is handled is not seen in
\* the context of the same Handler for another source file.
C30_PrivateContext ==
    \A f \in DOMAIN ctxSeen :
        ctxSeen[f] # <<>> => \A m \in ctxSeen[f].marks : m.by = f

\* the value the last step of the chain of h leaves, from the definitions of
\* the tree: the one its last step assigns, and for an empty chain the value
\* of the initial input, undefined for the source text
RECURSIVE ChainValue(_)
ChainValue(h) ==
    IF h = 0 THEN Undefined
    ELSE IF handlers[h].use = <<>> THEN ChainValue(handlers[h].parent)
    ELSE LET last == handlers[h].use[Len(handlers[h].use)]
         IN  IF last.sets = NoKey THEN Undefined ELSE last.sets

\* C31: in a chain run by Handler.transform, the incoming value a step
\* observes is the value the step before it set (undefined when it set
\* none), whatever the content; the first step observes the value of the
\* initial input of the chain, which for a fork is the value its parent's
\* chain ended with
C31_ValueThreading ==
    \A h \in Nodes : \A i \in DOMAIN stepLog[h] :
        LET e == stepLog[h][i]
            before == handlers[h].use[e.k - 1]
        IN  /\ e.k = 1 => /\ e.input.value = trans[h].initial.value
                          /\ e.input.value = ChainValue(handlers[h].parent)
            /\ e.k > 1 => e.input.value = (IF before.sets = NoKey THEN Undefined
                                           ELSE before.sets)

\* a second step has observed the value the first one set, and a fork's step
\* the value its parent's chain ended with, the contents being different
C31_Witness ==
    /\ \E i \in DOMAIN stepLog[Root] :
          /\ stepLog[Root][i].k = 2
          /\ stepLog[Root][i].input.value = StepValue(Root, 1)
    /\ \E h \in Nodes \ {Root} : \E i \in DOMAIN stepLog[h] :
          /\ handlers[h].parent = Root
          /\ stepLog[h][i].input.value = StepValue(Root, 2)
          /\ stepLog[h][i].input.content # SourceText

\* C32: the destination of the generator of a fork that has no destination
\* function is the source's relative path under the output directory,
\* whatever the destination of its parent; a Handler and a fork of it that
\* both have no destination function get generators with the same
\* destination.
C32_ForkDefaultDestination ==
    \A h \in Generators :
        (handlers[h].parent # 0 /\ handlers[h].dest = "default") =>
            /\ genDest[h] = Str(path_join(DestDir, SourceRelativePath))
            /\ \A g \in Generators \ {h} :
                  (h \in Descendants(g) /\ handlers[g].dest = "default") =>
                      genDest[h] = genDest[g]

\* a fork without a destination function has matched under a parent with
\* one, itself a fork of a Handler without one
C32_Witness ==
    /\ Nodes # {}
    /\ \E h, g \in Generators :
          /\ handlers[h].parent = g
          /\ handlers[g].parent = Root
          /\ Root \in Generators
          /\ handlers[h].dest = "default"
          /\ handlers[g].dest = "suffix"
          /\ genDest[h] # genDest[g]
          /\ genDest[h] = genDest[Root]

\* C33: once a step of the chain of a Handler has failed, no step of a fork
\* below it at any depth has been invoked, no file of the Handler or of such
\* a fork has been written, the transformation of such a fork, once
\* settled, is rejected with the error of the failed step, every
\* generateOutput call on these generators is waiting or has rejected, and
\* no step of the failed chain has been invoked a second time.
C33_SharedFailure ==
    \A h \in Nodes :
        trans[h].failedAt # 0 =>
            /\ trans[h].error = StepError(h, trans[h].failedAt)
            /\ Len(stepLog[h]) = trans[h].failedAt
            /\ \A k \in DOMAIN handlers[h].use : Invocations(h, k) <= 1
            /\ written[h] = 0
            /\ \A d \in Descendants(h) :
                  /\ stepLog[d] = <<>>
                  /\ written[d] = 0
                  /\ trans[d].st \in {"unset", "pending", "rejected"}
                  /\ trans[d].st = "rejected" => trans[d].error = trans[h].error
                  /\ ~ trans[d].started

\* the chain of the top-level Handler has failed at its second step;
\* generateOutput has rejected twice on its generator and once on the
\* generator of a fork of a fork, with the error of that step
C33_Witness ==
    /\ Nodes # {}
    /\ trans[Root].failedAt = 2
    /\ failed[Root] >= 2
    /\ \E d, e \in Descendants(Root) :
          /\ handlers[e].parent = d
          /\ failed[e] > 0
          /\ trans[e].error = StepError(Root, 2)

\* C34: once the read of a SourceFile has failed, no other read is issued,
\* the promises of getContent, getContentString and getHash are rejected
\* with the error of the read once they have settled, every call of these
\* accessors has returned these promises, and the fields content,
\* contentString and hash are null.
C34_FailedReadCached ==
    \A p \in DOMAIN sfMade :
        (sfMade[p].io = "readFile" /\ sfMade[p].st = "rejected") =>
            /\ sfReads = 1
            /\ \A a \in {"content", "contentString", "hash"} :
                  /\ SourceFile_isNull(a)
                  /\ sfReturned[a] \subseteq {sfPromise[a]}
                  /\ sfPromise[a] # 0 =>
                        /\ sfMade[sfPromise[a]].st \in {"pending", "rejected"}
                        /\ sfMade[sfPromise[a]].st = "rejected" =>
                              sfMade[sfPromise[a]].err = sfMade[p].err

\* the read that getContent started has failed; getHash, first called after
\* the failure, has returned a promise that has rejected with the error of
\* the read, as has the one of getContentString
C34_Witness ==
    /\ sfReturned # <<>>
    /\ sfReturned["content"] # {}
    /\ sfReturned["hash"] # {}
    /\ sfReads = 1
    /\ LET r == sfPromise["content"]
           h == sfPromise["hash"]
       IN  /\ sfMade[r].st = "rejected"
           /\ r \in sfMade[h].after
           /\ sfMade[h].st = "rejected"
           /\ sfMade[h].err = sfMade[r].err
           /\ sfMade[sfPromise["contentString"]].err = sfMade[r].err

\* C35: the transformation of a Handler without use entries is its input,
\* content and value alike: for a top-level Handler the text of the source
\* file, which is what its generator writes and what the chains of its forks
\* start from.
C35_EmptyChainIdentity ==
    \A h \in Nodes :
        (handlers[h].use = <<>> /\ trans[h].started) =>
            /\ trans[h].st = "fulfilled"
            /\ trans[h].cur = Input(h)
            /\ stepLog[h] = <<>>
            /\ handlers[h].parent = 0 =>
                  trans[h].cur = [content |-> SourceText, value |-> Undefined]
            /\ \A f \in Children(h) :
                  trans[f].started =>
                      /\ trans[f].initial = trans[h].initial
                      /\ \A i \in DOMAIN stepLog[f] :
                            stepLog[f][i].k = 1 => stepLog[f][i].input = trans[h].initial

\* a top-level Handler without use entries has written its file, a fork of
\* it has been invoked on the source text, and a fork of that fork, without
\* use entries as well, has written the content and the value the chain of
\* its parent ended with
C35_Witness ==
    /\ Nodes # {}
    /\ handlers[Root].use = <<>>
    /\ written[Root] > 0
    /\ \E f \in Children(Root) :
          /\ stepLog[f] # <<>>
          /\ stepLog[f][1].input.content = SourceText
          /\ \E h \in Children(f) :
                /\ handlers[h].use = <<>>
                /\ written[h] > 0
                /\ trans[h].cur.value # Undefined
                /\ trans[h].cur.content # SourceText

\* C36: the promise of visitSourcesInDir settles at most once; once the
\* walker has reported an error it is rejected with the first one; no file
\* is dispatched to the transformation after an error; and it is fulfilled
\* only after 'end', without an error, when the result of every file has
\* fulfilled, with one result for each file of the directory.
C36_WalkSettlement ==
    vWalk # <<>> =>
        /\ Len(vSettled) <= 1
        /\ vPromise.st \in {"fulfilled", "rejected"} <=> Len(vSettled) = 1
        /\ vWalk.errors > 0 => vPromise = [st |-> "rejected", v |-> WalkError(1)]
        /\ \A i \in DOMAIN vResults : vResults[i].errorsBefore = 0
        /\ vPromise.st \in {"following", "fulfilled"} => (vWalk.ended /\ vWalk.errors = 0)
        /\ vPromise.st = "fulfilled" =>
              /\ \A i \in DOMAIN vResults : vResults[i].st = "fulfilled"
              /\ Len(vPromise.v) = Cardinality(vWalk.tree)
              /\ \A f \in vWalk.tree :
                    Cardinality({i \in DOMAIN vPromise.v : vPromise.v[i] = f}) = 1

\* one file was dispatched and its result has fulfilled; then the walker
\* reported an error, which rejected the promise, then a second error, and
\* then the other file, which was not dispatched
C36_Witness ==
    /\ vWalk # <<>>
    /\ vWalk.errors = 2
    /\ vWalk.stalled
    /\ vWalk.todo = {}
    /\ Len(vResults) = 1
    /\ vResults[1].st = "fulfilled"
    /\ vSettled = <<[st |-> "rejected", v |-> WalkError(1)]>>

\* C37: no failure of the processing of a file, a same-output collision
\* included, escapes the run as an uncaught exception, which would leave the
\* promise of main pending for ever.
C37_RunTermination ==
    mResult # "idle" => ~ uncaught

\* C38: resolveRequestAsync calls callback at most once for a request, and
\* once its promises have settled exactly once: with the error alone when
\* resolveRequest has rejected, with (null, output) when it has fulfilled.
C38_CallbackOnce ==
    rqCalls # <<>> =>
        /\ Len(rqCalls) = 1
        /\ rqTranspile.st = "rejected" => rqCalls = <<<<rqTranspile.v>>>>
        /\ rqTranspile.st = "fulfilled" => rqCalls = <<<<[t |-> "null"], rqTranspile.v>>>>
====
